---- MODULE Spec2Model ----
(***************************************************************************)
(* typomat: the incremental indexer (domain.tokenizeDirectory), the token  *)
(* store (package data) and the prompt assembler (domain.generatePrompt,   *)
(* lazy.Sample, random.Shuffle), modelled as one state machine.            *)
(*                                                                         *)
(* A process calls domain.Prompt; the first call runs an index pass whose  *)
(* file-system reads (stat, text detection, size, mtime, tokenization) are *)
(* separate steps, so that the file system may change between any two of   *)
(* them.  Store statements are atomic and each may fail.                   *)
(***************************************************************************)
EXTENDS Integers, Sequences, FiniteSets, TLC

(***************************************************************************)
(* Bounds of the model.                                                    *)
(***************************************************************************)
\* events of the environment per behaviour: a file-system operation, a store
\* statement that fails, the process being started again
MaxEvents == 1
\* Prompt calls per process
MaxCalls == 2
\* modification times are 0..MaxMtime, in ticks
MaxMtime == 2
\* ticks per second: time.Time has a finer resolution than Time.Unix()
TicksPerSecond == 2
\* domain.tokenBufferSize (10000 in the source), scaled to the model's files
tokenBufferSize == 2
\* the available parallelism of the worker pool
NumWorkers == 2
\* the results the shared channel holds before a hand-off blocks
ChanCap == 1
\* Sample run by itself: streams of up to MaxStream items, k up to MaxK
MaxStream == 5
MaxK == 3
\* Shuffle run by itself: slices of up to MaxSlice elements
MaxSlice == 4
\* openDb is called up to MaxOpens times, and AutoMigrate would fail up to
\* MaxMigrateFailures times in a row
MaxOpens == 2
MaxMigrateFailures == 2
\* data.batchSize (100 in the source), scaled to the model's record lists
batchSize == 2
\* the data package run by itself: record lists of up to MaxRecords records
MaxRecords == 3
\* the packing loop run by itself: shuffled lists of up to MaxPack tokens
MaxPack == 3
\* the tokenizer run by itself: identifiers of up to MaxWord letters, strings
\* and file contents of up to MaxInput runes
MaxWord == 5
MaxInput == 4

(***************************************************************************)
(* Program constants.                                                      *)
(***************************************************************************)
maxFileSize == 1000000
minTokenLen == 2
maxTokenLen == 12

(***************************************************************************)
(* Tokens are sequences of characters.                                     *)
(***************************************************************************)
TokFoo == <<"f", "o", "o">>
TokBar == <<"b", "a", "r">>
TokHello == <<"h", "e", "l", "l", "o">>
TokWorld == <<"w", "o", "r", "l", "d">>
\* too short and too long to be eligible
TokAb == <<"a", "b">>
TokLong == <<"a", "b", "c", "d", "e", "f", "g", "h", "i", "j", "k", "l">>

\* What tokenizer.TokenizeFile yields for the two text contents of the model:
\* input order, duplicates retained.
ContentA == <<TokFoo, TokBar, TokFoo, TokAb>>
ContentB == <<TokHello, TokLong, TokWorld, TokBar>>
Contents == {ContentA, ContentB}

(***************************************************************************)
(* The file system.  A file version is what the system calls of the        *)
(* indexer can observe: the size and the modification time of stat, whether*)
(* the first 512 bytes are valid UTF-8, and the token sequence of the      *)
(* content.                                                                *)
(***************************************************************************)
Absent == [absent |-> TRUE]

Version(size, mtime, utf8, toks) ==
  [size |-> size, mtime |-> mtime, utf8 |-> utf8, toks |-> toks]

\* the version a file has when the behaviour starts
FirstVersion == Version(10, 0, TRUE, ContentA)

\* rewrites of FirstVersion: another content with the same size and mtime,
\* with the mtime moved within the second, with the mtime moved to another
\* second, with another size
TextVersions ==
  {FirstVersion,
   Version(10, 0, TRUE, ContentB),
   Version(10, TicksPerSecond - 1, TRUE, ContentB),
   Version(10, MaxMtime, TRUE, ContentB),
   Version(11, 0, TRUE, ContentB)}

\* an empty file, a binary file and a text file of the maximum size
EmptyVersion == Version(0, 0, TRUE, <<>>)
BinaryVersion == Version(10, 0, FALSE, <<>>)
BigVersion == Version(maxFileSize, 0, TRUE, ContentA)

FileVersions == TextVersions \cup {EmptyVersion, BinaryVersion, BigVersion}

Dirs == {"dA", "dB"}
\* the directory that the worker pool indexes
PoolDir == "dP"
\* a directory path that does not exist
MissingDir == "dX"

\* the files that can exist under each directory, in the order of WalkDir
PathsOf(d) ==
  IF d = "dA" THEN <<"a1", "a2">>
  ELSE IF d = PoolDir THEN <<"p1", "p2", "p3">>
  ELSE <<"b1">>
Paths == {"a1", "a2", "b1"}

\* the prompt length the TUI asks for (128 in the source), scaled to the
\* model's tokens
maxPromptLen == 8
\* ui.promptPoolSize (3 in the source)
promptPoolSize == 3
\* data.Teardown: deleteRetries, and baseTimeout in milliseconds
deleteRetries == 4
baseTimeout == 50
\* calls of data.Setup in one run of the process
MaxSetups == 2
\* the prompt lengths asked for when the lengths vary
MaxLens == {0, 3, 7, maxPromptLen}

(***************************************************************************)
(* Package data: the store of one directory is a set of File rows, keyed   *)
(* by Path, and a set of Token rows, keyed by (Path, Value).               *)
(***************************************************************************)
File(path, size, mtime) == [Path |-> path, Size |-> size, Mtime |-> mtime]
Token(path, value) == [Path |-> path, Value |-> value]

EmptyStore == [files |-> {}, tokens |-> {}]

\* Time.Unix(): whole seconds
Unix(mtime) == mtime \div TicksPerSecond

\* VersionEquals as it would be if it compared the modification times
\* themselves
VersionEqualsExact(f, other) ==
  /\ f.Path = other.Path
  /\ f.Mtime = other.Mtime
  /\ f.Size = other.Size

\* File.VersionEquals
VersionEquals(f, other) ==
  /\ f.Path = other.Path
  /\ Unix(f.Mtime) = Unix(other.Mtime)
  /\ f.Size = other.Size

\* UpsertFiles as it would be with ON CONFLICT DO NOTHING: a record whose
\* path has a row already is dropped
RECURSIVE UpsertFilesIgnore(_, _)
UpsertFilesIgnore(st, files) ==
  IF files = <<>> THEN st
  ELSE UpsertFilesIgnore(
         IF \E f \in st.files : f.Path = Head(files).Path THEN st
         ELSE [st EXCEPT !.files = @ \cup {Head(files)}],
         Tail(files))

\* One INSERT ... ON CONFLICT DO UPDATE per record, in the order of the list.
RECURSIVE UpsertFiles(_, _)
UpsertFiles(st, files) ==
  IF files = <<>> THEN st
  ELSE UpsertFiles(
         [st EXCEPT !.files =
            {r \in st.files : r.Path # Head(files).Path} \cup {Head(files)}],
         Tail(files))

UpsertTokens(st, toks) ==
  [st EXCEPT !.tokens = st.tokens \cup {toks[i] : i \in 1..Len(toks)}]

\* DeleteTokensOfFile as it would be without its WHERE clause
DeleteAllTokens(st, path) == [st EXCEPT !.tokens = {}]

\* DELETE FROM tokens WHERE path = ?
DeleteTokensOfFile(st, path) ==
  [st EXCEPT !.tokens = {t \in st.tokens : t.Path # path}]

\* the first statement of DeleteFile: DELETE of the File row
DeleteFileRow(st, path) ==
  [st EXCEPT !.files = {r \in st.files : r.Path # path}]

\* GetFiles, as the lookup map tokenizeDirectory builds from it
GetFiles(st) == st.files

(***************************************************************************)
(* The statements a store call sends to the database, each atomic.  A call *)
(* that fails stops at its failing statement; the statements before it     *)
(* stay committed.                                                         *)
(***************************************************************************)
Stmt(kind, path, rows) == [kind |-> kind, path |-> path, rows |-> rows]

\* DeleteFile as it would be if the cascade were left out
DeleteFileNoCascade(path, cascade) ==
  <<Stmt("deleteFileRow", path, <<>>)>>

\* DeleteFile(file, cascade): the File row first, then the Token rows
DeleteFile(path, cascade) ==
  <<Stmt("deleteFileRow", path, <<>>)>> \o
  (IF cascade THEN <<Stmt("deleteTokens", path, <<>>)>> ELSE <<>>)

Exec(st, stmt) ==
  CASE stmt.kind = "deleteTokens" -> DeleteTokensOfFile(st, stmt.path)
    [] stmt.kind = "deleteFileRow" -> DeleteFileRow(st, stmt.path)
    [] stmt.kind = "upsertFiles" -> UpsertFiles(st, stmt.rows)
    [] stmt.kind = "upsertTokens" -> UpsertTokens(st, stmt.rows)

\* CreateInBatches of an empty list sends nothing, so it cannot fail.
SendsSql(stmt) ==
  stmt.kind \in {"deleteTokens", "deleteFileRow"} \/ stmt.rows # <<>>

\* the positions at which a list of statements can fail
FailPoints(stmts) == {i \in 1..Len(stmts) : SendsSql(stmts[i])}

RECURSIVE ExecAll(_, _, _)
ExecAll(st, stmts, n) ==
  IF n = 0 THEN st ELSE Exec(ExecAll(st, stmts, n - 1), stmts[n])

\* Run the statements; failAt = 0 is no failure, failAt = i is statement i
\* failing.  sent counts the statements that reached the database and succeeded.
Run(st, stmts, failAt) ==
  LET n == IF failAt = 0 THEN Len(stmts) ELSE failAt - 1
  IN [store |-> ExecAll(st, stmts, n),
      err |-> IF failAt = 0 THEN "nil" ELSE "ErrQuery",
      sent |-> Cardinality({i \in 1..n : SendsSql(stmts[i])})]

(***************************************************************************)
(* Package domain: eligibility and the unique tokens of a file.            *)
(***************************************************************************)
\* isTokenEligible as it would be with inclusive comparisons
isTokenEligibleInclusive(token) ==
  minTokenLen <= Len(token) /\ Len(token) <= maxTokenLen

\* isTokenEligible: the length in runes, both comparisons strict
isTokenEligible(token) ==
  minTokenLen < Len(token) /\ Len(token) < maxTokenLen

\* the loop of getUniqueTokensOfFile: the first occurrence of each eligible
\* token, in input order
RECURSIVE UniqueTokens(_, _, _)
UniqueTokens(path, allTokens, lookup) ==
  IF allTokens = <<>> THEN <<>>
  ELSE LET fileToken == Head(allTokens)
       IN IF isTokenEligible(fileToken) /\ fileToken \notin lookup
          THEN <<Token(path, fileToken)>> \o
               UniqueTokens(path, Tail(allTokens), lookup \cup {fileToken})
          ELSE UniqueTokens(path, Tail(allTokens), lookup)

getUniqueTokensOfFile(path, allTokens) == UniqueTokens(path, allTokens, {})

\* the statements of flushTokens as they would be if the token upsert sent
\* one buffer's worth of the tokens and no more
FlushStmtsOneBuffer(changedFiles, newFiles, tokens) ==
  [i \in 1..Len(changedFiles) |->
     Stmt("deleteTokens", changedFiles[i].Path, <<>>)] \o
  <<Stmt("upsertFiles", "", changedFiles), Stmt("upsertFiles", "", newFiles)>> \o
  (IF Len(tokens) = 0 THEN <<>>
   ELSE IF Len(tokens) <= tokenBufferSize + 1
   THEN <<Stmt("upsertTokens", "", tokens)>>
   ELSE <<Stmt("upsertTokens", "", SubSeq(tokens, 1, tokenBufferSize + 1))>>)

\* the statements of flushTokens as they would be if the tokens were
\* upserted first and the tokens of the changed files deleted last
FlushStmtsUpsertFirst(changedFiles, newFiles, tokens) ==
  (IF Len(tokens) = 0 THEN <<>> ELSE <<Stmt("upsertTokens", "", tokens)>>) \o
  <<Stmt("upsertFiles", "", changedFiles), Stmt("upsertFiles", "", newFiles)>> \o
  [i \in 1..Len(changedFiles) |->
     Stmt("deleteTokens", changedFiles[i].Path, <<>>)]

\* the statements of the closure flushTokens
FlushStmts(changedFiles, newFiles, tokens) ==
  [i \in 1..Len(changedFiles) |->
     Stmt("deleteTokens", changedFiles[i].Path, <<>>)] \o
  <<Stmt("upsertFiles", "", changedFiles), Stmt("upsertFiles", "", newFiles)>> \o
  (IF Len(tokens) = 0 THEN <<>> ELSE <<Stmt("upsertTokens", "", tokens)>>)

\* flushTokens: the queues are cleared only when the token upsert was reached
\* and succeeded
flushTokens(st, changedFiles, newFiles, tokens, failAt) ==
  LET r == Run(st, FlushStmts(changedFiles, newFiles, tokens), failAt)
      cleared == r.err = "nil" /\ Len(tokens) # 0
  IN [store |-> r.store, err |-> r.err, sent |-> r.sent,
      changedFiles |-> IF cleared THEN <<>> ELSE changedFiles,
      newFiles |-> IF cleared THEN <<>> ELSE newFiles,
      tokens |-> IF cleared THEN <<>> ELSE tokens]

(***************************************************************************)
(* The sampler.  An operator that draws at random is the set of the        *)
(* results its draws can give.                                             *)
(***************************************************************************)
TokenResult(value, err) == [Value |-> value, Err |-> err]

\* the sequences that hold every element of S once
RECURSIVE Orderings(_)
Orderings(S) ==
  IF S = {} THEN {<<>>}
  ELSE UNION {{<<x>> \o p : p \in Orderings(S \ {x})} : x \in S}

\* IterUniqueTokens as it would be without DISTINCT: one result per Token row
IterAllTokens(st, withErr) ==
  LET full == {[i \in DOMAIN p |-> TokenResult(p[i].Value, "nil")] :
                 p \in Orderings(st.tokens)}
  IN IF withErr
     THEN {SubSeq(s, 1, n) \o <<TokenResult(<<>>, "ErrQuery")>> :
             s \in full, n \in 0..Cardinality(st.tokens)}
     ELSE full

\* IterUniqueTokens: SELECT DISTINCT value, in the order the database gives
\* them; withErr: the query or the scan of one row fails, the error result is
\* yielded and the iteration ends.
IterUniqueTokens(st, withErr) ==
  LET values == {t.Value : t \in st.tokens}
      full == {[i \in DOMAIN p |-> TokenResult(p[i], "nil")] :
                 p \in Orderings(values)}
  IN IF withErr
     THEN {SubSeq(s, 1, n) \o <<TokenResult(<<>>, "ErrQuery")>> :
             s \in full, n \in 0..Cardinality(values)}
     ELSE full

\* rand.IntN(n): the values it returns, each as likely as the others
IntN(n) == 0..(n - 1)

\* the loop body of Sample as it would be if it filled the reservoir while
\* i <= k
SampleOneFillsMore(sample, item, i, k, j) ==
  IF i <= k THEN Append(sample, item)
  ELSE IF j < k THEN [sample EXCEPT ![j + 1] = item]
  ELSE sample

\* the loop body of Sample as it would be if it drew the slot among the k
\* slots of the reservoir
SampleOneAlwaysReplaces(sample, item, i, k, j) ==
  IF i < k THEN Append(sample, item)
  ELSE IF k > 0 THEN [sample EXCEPT ![(j % k) + 1] = item]
  ELSE sample

\* the loop body of lazy.Sample for the item at index i and the draw j
SampleOne(sample, item, i, k, j) ==
  IF i < k THEN Append(sample, item)
  ELSE IF j < k THEN [sample EXCEPT ![j + 1] = item]
  ELSE sample

\* one iteration of the loop of lazy.Sample, for every draw j = rand.IntN(i+1)
SampleStep(samples, item, i, k) ==
  {SampleOne(sample, item, i, k, j) : sample \in samples, j \in IntN(i + 1)}

\* lazy.Sample from index i on, the draws of the iterations that draw given
\* in their order
RECURSIVE SampleWith(_, _, _, _, _)
SampleWith(stream, k, i, sample, draws) ==
  IF i = Len(stream) THEN sample
  ELSE IF i < k
  THEN SampleWith(stream, k, i + 1,
                  SampleOne(sample, stream[i + 1], i, k, 0), draws)
  ELSE SampleWith(stream, k, i + 1,
                  SampleOne(sample, stream[i + 1], i, k, Head(draws)),
                  Tail(draws))

\* the sequences of draws of the iterations lo..hi of Sample
RECURSIVE SampleDraws(_, _)
SampleDraws(lo, hi) ==
  IF lo > hi THEN {<<>>}
  ELSE {<<j>> \o d : j \in IntN(lo + 1), d \in SampleDraws(lo + 1, hi)}

RECURSIVE SampleFrom(_, _, _, _)
SampleFrom(stream, k, i, samples) ==
  IF i = Len(stream) THEN samples
  ELSE SampleFrom(stream, k, i + 1, SampleStep(samples, stream[i + 1], i, k))

\* lazy.Sample(iter, k)
Sample(stream, k) == SampleFrom(stream, k, 0, {<<>>})

Swap(s, a, b) == [s EXCEPT ![a] = s[b], ![b] = s[a]]

\* the draw of Shuffle as it would be if it were taken among all n indexes
ShuffleDrawNaive(i, n) == IntN(n)

\* j := rand.IntN(i + 1) of random.Shuffle, for a slice of n elements
ShuffleDraw(i, n) == IntN(i + 1)

\* random.Shuffle from index i down, the draws given in their order
RECURSIVE ShuffleWith(_, _, _)
ShuffleWith(s, i, draws) ==
  IF i <= 0 THEN s
  ELSE ShuffleWith(Swap(s, i + 1, Head(draws) + 1), i - 1, Tail(draws))

\* the sequences of draws of the iterations i, i-1, .. 1 of Shuffle
RECURSIVE ShuffleDraws(_, _)
ShuffleDraws(i, n) ==
  IF i <= 0 THEN {<<>>}
  ELSE {<<j>> \o d : j \in ShuffleDraw(i, n), d \in ShuffleDraws(i - 1, n)}

\* the loop of random.Shuffle from index i (0-based) down to 1
RECURSIVE ShuffleFrom(_, _)
ShuffleFrom(slices, i) ==
  IF i <= 0 THEN slices
  ELSE ShuffleFrom(UNION {{Swap(s, i + 1, j + 1) :
                             j \in ShuffleDraw(i, Len(s))} : s \in slices},
                   i - 1)

\* random.Shuffle(slice)
Shuffle(slice) == ShuffleFrom({slice}, Len(slice) - 1)

\* math.Round(a / b) for a >= 0, b > 0: halves round away from zero
Round(a, b) == (2 * a + b) \div (2 * b)

\* the sample size as it would be if it were estimated from the longest
\* tokens instead of the shortest
maxWordsNeededLongTokens(maxLen) == Round(maxLen + 1, maxTokenLen + 1)

maxWordsNeeded(maxLen) == Round(maxLen + 1, minTokenLen + 1)

\* the packing loop as it would be if it did not count the space before a
\* token
RECURSIVE PackNoSpace(_, _, _, _, _)
PackNoSpace(shuffled, i, promptLen, promptTokens, maxLen) ==
  IF i >= Len(shuffled) THEN promptTokens
  ELSE LET len == promptLen + Len(shuffled[i + 1])
       IN IF len > maxLen THEN promptTokens
          ELSE PackNoSpace(shuffled, i + 1, len,
                           Append(promptTokens, shuffled[i + 1]), maxLen)

\* the packing loop as it would be if it passed over a token that does not
\* fit and went on with the next one
RECURSIVE PackSkipping(_, _, _, _, _)
PackSkipping(shuffled, i, promptLen, promptTokens, maxLen) ==
  IF i >= Len(shuffled) THEN promptTokens
  ELSE LET len == (IF promptTokens # <<>> THEN promptLen + 1 ELSE promptLen)
                  + Len(shuffled[i + 1])
       IN IF len > maxLen
          THEN PackSkipping(shuffled, i + 1, promptLen, promptTokens, maxLen)
          ELSE PackSkipping(shuffled, i + 1, len,
                            Append(promptTokens, shuffled[i + 1]), maxLen)

\* the packing loop of generatePrompt
RECURSIVE Pack(_, _, _, _, _)
Pack(shuffled, i, promptLen, promptTokens, maxLen) ==
  IF i >= Len(shuffled) THEN promptTokens
  ELSE LET len == (IF i > 0 THEN promptLen + 1 ELSE promptLen)
                  + Len(shuffled[i + 1])
       IN IF len > maxLen THEN promptTokens
          ELSE Pack(shuffled, i + 1, len,
                    Append(promptTokens, shuffled[i + 1]), maxLen)

\* strings.Join(elems, " ")
RECURSIVE Join(_)
Join(elems) ==
  IF elems = <<>> THEN <<>>
  ELSE IF Len(elems) = 1 THEN elems[1]
  ELSE elems[1] \o <<" ">> \o Join(Tail(elems))

\* the loop of generatePrompt over the sample: the first error result ends it
FirstErr(tokenResults) ==
  LET bad == {i \in DOMAIN tokenResults : tokenResults[i].Err # "nil"}
  IN IF bad = {} THEN "nil"
     ELSE tokenResults[CHOOSE i \in bad : \A j \in bad : i <= j].Err

\* generatePrompt(maxLen): the (prompt, err) pairs it can return
generatePrompt(st, maxLen, withErr) ==
  UNION {
    IF FirstErr(tokenResults) # "nil"
    THEN {[prompt |-> <<>>, err |-> FirstErr(tokenResults)]}
    ELSE {[prompt |-> Join(Pack(shuffled, 0, 0, <<>>, maxLen)), err |-> "nil"] :
            shuffled \in
              Shuffle([i \in DOMAIN tokenResults |-> tokenResults[i].Value])} :
    tokenResults \in
      UNION {Sample(stream, maxWordsNeeded(maxLen)) :
               stream \in IterUniqueTokens(st, withErr)}}

(***************************************************************************)
(* State.                                                                  *)
(***************************************************************************)
VARIABLES
  fs,                  \* the file system: path -> file version or Absent
  store,               \* the database of every directory (kept between processes)
  hasTokenized,        \* domain.hasTokenized
  dbId,                \* domain.dbId
  pc,                  \* where the running Prompt call is
  maxLen,              \* the maxLen of the running Prompt call
  dbFiles,             \* tokenizeDirectory: the File rows read at the start
  removedFilesLookup,  \* tokenizeDirectory: paths of File rows not yet seen
  paths,               \* tokenizeDirectory: the result of git.LsFiles
  idx,                 \* tokenizeDirectory: index of the path in process
  changedFiles,        \* tokenizeDirectory: queue of changed files
  newFiles,            \* tokenizeDirectory: queue of new files
  tokens,              \* tokenizeDirectory: the token buffer
  cur,                 \* processFile: what it has read of the file so far,
                       \* and the calls it has made on the file
  result,              \* what the last Prompt call returned
  hist,                \* bookkeeping of the behaviour, read by the properties only
  rnd,                 \* a call of lazy.Sample or random.Shuffle run by itself
  pool,                \* the worker pool of a concurrent index pass
  tk,                  \* a call of the tokenizer package run by itself
  db,                  \* calls of the data package run by themselves
  ui,                  \* the model of the terminal interface
  app                  \* config.Init, data.Setup and data.Teardown of one process

vars == <<fs, store, hasTokenized, dbId, pc, maxLen, dbFiles, removedFilesLookup,
          paths, idx, changedFiles, newFiles, tokens, cur, result, hist,
          rnd, pool, tk, db, ui, app>>

\* the state of the sequential program
seqVars == <<fs, store, hasTokenized, dbId, pc, maxLen, dbFiles,
             removedFilesLookup, paths, idx, changedFiles, newFiles, tokens,
             cur, result, hist>>

passVars == <<dbFiles, removedFilesLookup, paths, idx, changedFiles, newFiles,
              tokens, cur>>

\* the terminal interface is not running
NoUi == [appState |-> "none"]
\* the process has not been configured
NoApp == [phase |-> "none"]
\* no call of the tokenizer package is run by itself
NoTk == [op |-> "none", input |-> <<>>, filter |-> 0, i |-> 0,
         current |-> <<>>, result |-> <<>>, err |-> "nil", done |-> FALSE]
\* no call of the data package has been made, no iterator is open
NoCall == [op |-> "none", store0 |-> EmptyStore, files |-> <<>>,
           tokens |-> <<>>, path |-> "", cascade |-> FALSE, err |-> "nil",
           id |-> "", handle |-> 0, cached |-> FALSE, migrations |-> 0,
           reset |-> FALSE, failures |-> 0]
NoIter == [state |-> "none", rows |-> <<>>, next |-> 0, yielded |-> <<>>,
           stopped |-> FALSE]
\* dbCache is empty (0 stands for no handle); handles are numbered in the
\* order in which gorm.Open returns them
NoDb == [store |-> EmptyStore, last |-> NoCall, it |-> NoIter,
         dbCache |-> [d \in {"dA", "dB"} |-> 0], opens |-> 0]
\* no call of Sample or Shuffle is run by itself, no worker pool runs
NoRnd == [op |-> "none", input |-> <<>>, k |-> 0, i |-> 0, out |-> <<>>,
          draws |-> <<>>, done |-> FALSE, maxLen |-> 0, prompt |-> <<>>]
\* no result: a worker that holds none is between two files
NoHeld == [path |-> "", status |-> "none", size |-> 0, mtime |-> 0,
           tokens |-> <<>>]
\* no ProcessDirectory call has been made
NoPool == [phase |-> "none", batches |-> <<>>, next |-> <<>>, held |-> <<>>,
           worker |-> <<>>, chan |-> <<>>, cancelled |-> FALSE,
           err |-> "nil", consumer |-> "none", returned |-> "none",
           store0 |-> EmptyStore, arrived |-> <<>>, flushes |-> 0,
           events |-> 0]

NoFile == [statSize |-> 0, size |-> 0, mtime |-> 0, status |-> "none",
           tokenized |-> FALSE, calls |-> {}]
NoResult == [dir |-> "", maxLen |-> 0, prompt |-> <<>>, err |-> "none",
             ranPass |-> FALSE, streamErr |-> FALSE]
NoSummary == [dir |-> "", err |-> "none", fs0 |-> 0, fs1 |-> 0,
              store0 |-> EmptyStore, store |-> EmptyStore]
NoPass == [dir |-> "", err |-> "none", fs0 |-> 0, fs1 |-> 0,
           store0 |-> EmptyStore, store |-> EmptyStore,
           tokenized |-> 0, sent |-> 0,
           enumerated |-> FALSE, listed |-> <<>>, ineligible |-> {},
           queued |-> {}, prev |-> NoSummary]

Range(s) == {s[i] : i \in DOMAIN s}

\* git.LsFiles: the files under the directory, in walk order
RECURSIVE Existing(_, _)
Existing(ps, fsys) ==
  IF ps = <<>> THEN <<>>
  ELSE (IF fsys[Head(ps)] = Absent THEN <<>> ELSE <<Head(ps)>>) \o
       Existing(Tail(ps), fsys)

LsFiles(rootPath, fsys) == Existing(PathsOf(rootPath), fsys)

\* the store a former process left after it indexed the files ps, each of
\* them being FirstVersion at the time
IndexedStore(ps) ==
  [files |-> {File(p, FirstVersion.size, FirstVersion.mtime) : p \in ps},
   tokens |-> UNION {Range(getUniqueTokensOfFile(p, FirstVersion.toks)) :
                       p \in ps}]

DirOf(p) == CHOOSE d \in Dirs : p \in Range(PathsOf(d))

\* a process has started and has not called Prompt yet
InitProcess ==
  /\ hasTokenized = FALSE
  /\ dbId = ""
  /\ pc = "idle"
  /\ maxLen = 0
  /\ dbFiles = {}
  /\ removedFilesLookup = {}
  /\ paths = <<>>
  /\ idx = 0
  /\ changedFiles = <<>>
  /\ newFiles = <<>>
  /\ tokens = <<>>
  /\ cur = NoFile
  /\ result = NoResult
  /\ hist = [events |-> 0, fsOps |-> 0, calls |-> 0,
             seen |-> [p \in Paths |->
                         ({fs[p]} \ {Absent}) \cup
                         (IF \E f \in store[DirOf(p)].files : f.Path = p
                          THEN {FirstVersion} ELSE {})],
             indexed |-> {},
             pass |-> NoPass, last |-> NoPass]

\* the files of one directory, some of them indexed by a former process
Init ==
  /\ fs \in [Paths -> {Absent, FirstVersion}]
  /\ \A p \in Paths \ Range(PathsOf("dA")) : fs[p] = Absent
  /\ \E S \in SUBSET Range(PathsOf("dA")) :
       store = [d \in Dirs |-> IF d = "dA" THEN IndexedStore(S) ELSE EmptyStore]
  /\ InitProcess
  /\ rnd = NoRnd
  /\ pool = NoPool
  /\ tk = NoTk
  /\ db = NoDb
  /\ ui = NoUi
  /\ app = NoApp

\* the version of a file that holds the other content
OtherVersion == Version(10, 0, TRUE, ContentB)

\* files in two directories, some of those of the first indexed by a former
\* process
InitDirs ==
  /\ fs \in [Paths -> {Absent, FirstVersion, OtherVersion}]
  /\ fs["a1"] = FirstVersion
  /\ fs["a2"] \in {Absent, OtherVersion}
  /\ fs["b1"] = OtherVersion
  /\ \E S \in SUBSET Range(PathsOf("dA")) :
       store = [d \in Dirs |-> IF d = "dA" THEN IndexedStore(S) ELSE EmptyStore]
  /\ InitProcess
  /\ rnd = NoRnd
  /\ pool = NoPool
  /\ tk = NoTk
  /\ db = NoDb
  /\ ui = NoUi
  /\ app = NoApp

(***************************************************************************)
(* The file system changes under the program at any time.                  *)
(***************************************************************************)
FsWrite(p, v) ==
  /\ hist.events < MaxEvents
  /\ fs[p] # v
  /\ fs' = [fs EXCEPT ![p] = v]
  /\ hist' = [hist EXCEPT !.events = @ + 1, !.fsOps = @ + 1,
                          !.seen[p] = @ \cup {v}]
  /\ UNCHANGED <<rnd, pool, tk, db, ui, app, store, hasTokenized, dbId, pc, maxLen, passVars, result>>

FsRemove(p) ==
  /\ hist.events < MaxEvents
  /\ fs[p] # Absent
  /\ fs' = [fs EXCEPT ![p] = Absent]
  /\ hist' = [hist EXCEPT !.events = @ + 1, !.fsOps = @ + 1]
  /\ UNCHANGED <<rnd, pool, tk, db, ui, app, store, hasTokenized, dbId, pc, maxLen, passVars, result>>

\* The process exits and a new one starts: the globals of package domain are
\* initialised again, the database files stay.
Restart ==
  /\ pc = "idle"
  /\ hist.events < MaxEvents
  /\ hasTokenized' = FALSE
  /\ dbId' = ""
  /\ result' = NoResult
  /\ hist' = [hist EXCEPT !.events = @ + 1, !.calls = 0, !.indexed = {}]
  /\ UNCHANGED <<rnd, pool, tk, db, ui, app, fs, store, pc, maxLen, passVars>>

(***************************************************************************)
(* Bookkeeping of passes: hist.pass is the running pass, hist.last the     *)
(* last pass that returned, with a summary of the pass before it.          *)
(***************************************************************************)
Summary(p) == [dir |-> p.dir, err |-> p.err, fs0 |-> p.fs0, fs1 |-> p.fs1,
               store0 |-> p.store0, store |-> p.store]

BeginPass(h, d, st) ==
  [h EXCEPT !.pass = [NoPass EXCEPT !.dir = d, !.err = "running",
                                    !.fs0 = h.fsOps, !.store0 = st,
                                    !.store = st]]

EndPass(h, err, st) ==
  [h EXCEPT !.last = [h.pass EXCEPT !.err = err, !.store = st,
                                    !.fs1 = h.fsOps,
                                    !.prev = Summary(h.last)],
            !.pass = NoPass]

Returned(dir, ml, prompt, err, ranPass) ==
  [dir |-> dir, maxLen |-> ml, prompt |-> prompt, err |-> err,
   ranPass |-> ranPass, streamErr |-> FALSE]

(***************************************************************************)
(* domain.Prompt                                                           *)
(***************************************************************************)
\* fileutils.DirExists reports no directory: ErrInvalidDirPath, dbId not set
PromptInvalidDir(ml) ==
  /\ pc = "idle"
  /\ hist.calls < MaxCalls
  /\ result' = Returned(MissingDir, ml, <<>>, "ErrInvalidDirPath", FALSE)
  /\ hist' = [hist EXCEPT !.calls = @ + 1]
  /\ UNCHANGED <<rnd, pool, tk, db, ui, app, fs, store, hasTokenized, dbId, pc, maxLen, passVars>>

\* hasTokenized is set: generatePrompt only
PromptSample(dirPath, ml, withErr) ==
  /\ pc = "idle"
  /\ hist.calls < MaxCalls
  /\ hasTokenized
  /\ withErr => hist.events < MaxEvents
  /\ dbId' = dirPath
  /\ \E r \in generatePrompt(store[dirPath], ml, withErr) :
       result' = [Returned(dirPath, ml, r.prompt, r.err, FALSE)
                    EXCEPT !.streamErr = withErr]
  /\ hist' = [hist EXCEPT !.calls = @ + 1,
                          !.events = IF withErr THEN @ + 1 ELSE @]
  /\ UNCHANGED <<rnd, pool, tk, db, ui, app, fs, store, hasTokenized, pc, maxLen, passVars>>

\* hasTokenized is not set and data.GetFiles fails: tokenizeDirectory returns
PromptGetFilesFails(dirPath, ml) ==
  /\ pc = "idle"
  /\ hist.calls < MaxCalls
  /\ ~hasTokenized
  /\ hist.events < MaxEvents
  /\ dbId' = dirPath
  /\ result' = Returned(dirPath, ml, <<>>, "ErrQuery", TRUE)
  /\ hist' = EndPass([BeginPass(hist, dirPath, store[dirPath])
                        EXCEPT !.calls = @ + 1, !.events = @ + 1],
                     "ErrQuery", store[dirPath])
  /\ UNCHANGED <<rnd, pool, tk, db, ui, app, fs, store, hasTokenized, pc, maxLen, passVars>>

\* hasTokenized is not set: tokenizeDirectory starts (GetFiles, LsFiles)
PromptTokenize(dirPath, ml) ==
  /\ pc = "idle"
  /\ hist.calls < MaxCalls
  /\ ~hasTokenized
  /\ dbId' = dirPath
  /\ maxLen' = ml
  /\ dbFiles' = GetFiles(store[dirPath])
  /\ removedFilesLookup' = {f.Path : f \in GetFiles(store[dirPath])}
  /\ paths' = LsFiles(dirPath, fs)
  /\ idx' = 0
  /\ changedFiles' = <<>>
  /\ newFiles' = <<>>
  /\ tokens' = <<>>
  /\ cur' = NoFile
  /\ pc' = IF LsFiles(dirPath, fs) = <<>> THEN "finish" ELSE "stat"
  /\ hist' = [BeginPass(hist, dirPath, store[dirPath])
                EXCEPT !.calls = @ + 1, !.pass.enumerated = TRUE,
                       !.pass.listed = LsFiles(dirPath, fs)]
  /\ UNCHANGED <<rnd, pool, tk, db, ui, app, fs, store, hasTokenized, result>>

(***************************************************************************)
(* tokenizeDirectory: the loop over paths.  processFile reads the file in  *)
(* five system calls; the consumer code after it is part of the step that  *)
(* produces the result.                                                    *)
(***************************************************************************)
curPath == paths[idx + 1]

\* `continue`, or the end of the loop body
NextPath ==
  /\ idx' = idx + 1
  /\ pc' = IF idx + 1 = Len(paths) THEN "finish" ELSE "stat"

\* Prompt returns: the locals of the call are gone
Return ==
  /\ pc' = "idle"
  /\ maxLen' = 0
  /\ dbFiles' = {}
  /\ removedFilesLookup' = {}
  /\ paths' = <<>>
  /\ idx' = 0
  /\ changedFiles' = <<>>
  /\ newFiles' = <<>>
  /\ tokens' = <<>>
  /\ cur' = NoFile

\* the loop as it would be if it logged the error of processFile and went on
\* with the next path
SkipFailed(err) ==
  /\ NextPath
  /\ UNCHANGED <<rnd, pool, tk, db, ui, app, fs, store, hasTokenized, dbId, maxLen, dbFiles,
                 removedFilesLookup, paths, changedFiles, newFiles, tokens,
                 cur, result, hist>>

\* the return of a failed pass as it would be if Prompt set hasTokenized
\* before it looked at the error of tokenizeDirectory
AbortSetsFlag(err) ==
  /\ Return
  /\ result' = Returned(dbId, maxLen, <<>>, err, TRUE)
  /\ hist' = EndPass(hist, err, store[dbId])
  /\ hasTokenized' = TRUE
  /\ UNCHANGED <<rnd, pool, tk, db, ui, app, fs, store, dbId>>

\* tokenizeDirectory returns err: Prompt returns it, hasTokenized is not set
Abort(err) ==
  /\ Return
  /\ result' = Returned(dbId, maxLen, <<>>, err, TRUE)
  /\ hist' = EndPass(hist, err, store[dbId])
  /\ UNCHANGED <<rnd, pool, tk, db, ui, app, fs, store, hasTokenized, dbId>>

\* isFileEligible: os.Stat
ProcStat ==
  /\ pc = "stat"
  /\ IF fs[curPath] = Absent
     THEN Abort("ErrFileOperation")
     ELSE /\ cur' = [NoFile EXCEPT !.statSize = fs[curPath].size,
                                   !.calls = {"os.Stat"}]
          /\ pc' = "istext"
          /\ UNCHANGED <<rnd, pool, tk, db, ui, app, fs, store, hasTokenized, dbId, maxLen, dbFiles,
                         removedFilesLookup, paths, idx, changedFiles,
                         newFiles, tokens, result, hist>>

\* fileutils.IsTextFile: an empty file is not text, else utf8.Valid
IsTextFile(v) == v.size # 0 /\ v.utf8

\* isFileEligible: IsTextFile and the size test; an ineligible path is taken
\* off removedFilesLookup and skipped
ProcIsText ==
  /\ pc = "istext"
  /\ IF fs[curPath] = Absent
     THEN Abort("ErrFileOperation")
     ELSE IF IsTextFile(fs[curPath]) /\ cur.statSize < maxFileSize
     THEN /\ pc' = "size"
          /\ cur' = [cur EXCEPT !.calls = @ \cup {"IsTextFile"}]
          /\ UNCHANGED <<rnd, pool, tk, db, ui, app, fs, store, hasTokenized, dbId, maxLen, dbFiles,
                         removedFilesLookup, paths, idx, changedFiles,
                         newFiles, tokens, result, hist>>
     ELSE /\ removedFilesLookup' = removedFilesLookup \ {curPath}
          /\ cur' = [cur EXCEPT !.status = "Ineligible",
                                !.calls = @ \cup {"IsTextFile"}]
          /\ hist' = [hist EXCEPT !.pass.ineligible = @ \cup {curPath}]
          /\ NextPath
          /\ UNCHANGED <<rnd, pool, tk, db, ui, app, fs, store, hasTokenized, dbId, maxLen, dbFiles,
                         paths, changedFiles, newFiles, tokens, result>>

\* fileutils.Size
ProcSize ==
  /\ pc = "size"
  /\ IF fs[curPath] = Absent
     THEN Abort("ErrFileOperation")
     ELSE /\ cur' = [cur EXCEPT !.size = fs[curPath].size]
          /\ pc' = "mtime"
          /\ UNCHANGED <<rnd, pool, tk, db, ui, app, fs, store, hasTokenized, dbId, maxLen, dbFiles,
                         removedFilesLookup, paths, idx, changedFiles,
                         newFiles, tokens, result, hist>>

\* the status as it would be if the version comparison were left out
FileStatusNoCompare(file, dbFileLookup) ==
  IF \E dbFile \in dbFileLookup : dbFile.Path = file.Path
  THEN "Changed" ELSE "New"

\* processFile: "Determine file status"
FileStatus(file, dbFileLookup) ==
  IF \E dbFile \in dbFileLookup : dbFile.Path = file.Path
  THEN LET dbFile == CHOOSE f \in dbFileLookup : f.Path = file.Path
       IN IF VersionEquals(file, dbFile) THEN "Unchanged" ELSE "Changed"
  ELSE "New"

\* processFile as it would be without the early return for unchanged files
TokenizesAll(fileStatus) == FALSE

\* processFile: "File unchanged, skip tokenization"
SkipsTokenization(fileStatus) == fileStatus = "Unchanged"

\* fileutils.Mtime and the status; an unchanged file is taken off
\* removedFilesLookup and skipped
ProcMtime ==
  /\ pc = "mtime"
  /\ IF fs[curPath] = Absent
     THEN Abort("ErrFileOperation")
     ELSE LET file == File(curPath, cur.size, fs[curPath].mtime)
              fileStatus == FileStatus(file, dbFiles)
          IN /\ cur' = [cur EXCEPT !.mtime = fs[curPath].mtime,
                                   !.status = fileStatus]
             /\ IF SkipsTokenization(fileStatus)
                THEN /\ removedFilesLookup' = removedFilesLookup \ {curPath}
                     /\ NextPath
                ELSE /\ pc' = "tokenize"
                     /\ UNCHANGED <<removedFilesLookup, idx>>
             /\ UNCHANGED <<rnd, pool, tk, db, ui, app, fs, store, hasTokenized, dbId, maxLen, dbFiles,
                            paths, changedFiles, newFiles, tokens, result,
                            hist>>

\* the pass returns err after a store call failed; st is the store it leaves
AbortStore(err, st, sent) ==
  /\ Return
  /\ store' = [store EXCEPT ![dbId] = st]
  /\ result' = Returned(dbId, maxLen, <<>>, err, TRUE)
  /\ hist' = EndPass([hist EXCEPT !.events = @ + 1, !.pass.sent = @ + sent],
                     err, st)
  /\ UNCHANGED <<rnd, pool, tk, db, ui, app, fs, hasTokenized, dbId>>

\* the failing statement of a store call, 0 for none
FailChoices(stmts) ==
  {0} \cup (IF hist.events < MaxEvents THEN FailPoints(stmts) ELSE {})

\* getUniqueTokensOfFile, then the consumer code of tokenizeDirectory: queue
\* the file, append its tokens, flush when the buffer exceeds tokenBufferSize
ProcTokenize(failAt) ==
  /\ pc = "tokenize"
  /\ IF fs[curPath] = Absent
     THEN failAt = 0 /\ Abort("ErrTextProcessing")
     ELSE LET file == File(curPath, cur.size, cur.mtime)
              changed1 == IF cur.status = "Changed"
                          THEN Append(changedFiles, file) ELSE changedFiles
              new1 == IF cur.status = "New"
                      THEN Append(newFiles, file) ELSE newFiles
              tokens1 == tokens \o getUniqueTokensOfFile(curPath, fs[curPath].toks)
              r == flushTokens(store[dbId], changed1, new1, tokens1, failAt)
              queued1 == hist.pass.queued \cup
                           {[path |-> curPath, status |-> cur.status,
                             file |-> file,
                             toks |-> Range(getUniqueTokensOfFile(
                                                curPath, fs[curPath].toks))]}
          IN IF Len(tokens1) > tokenBufferSize
             THEN /\ failAt \in FailChoices(FlushStmts(changed1, new1, tokens1))
                  /\ IF r.err # "nil"
                     THEN AbortStore(r.err, r.store, r.sent)
                     ELSE /\ store' = [store EXCEPT ![dbId] = r.store]
                          /\ removedFilesLookup' = removedFilesLookup \ {curPath}
                          /\ changedFiles' = r.changedFiles
                          /\ newFiles' = r.newFiles
                          /\ tokens' = r.tokens
                          /\ hist' = [hist EXCEPT !.pass.tokenized = @ + 1,
                                                  !.pass.queued = queued1,
                                                  !.pass.sent = @ + r.sent]
                          /\ cur' = [cur EXCEPT !.tokenized = TRUE,
                                                !.calls = @ \cup {"TokenizeFile"}]
                          /\ NextPath
                          /\ UNCHANGED <<rnd, pool, tk, db, ui, app, fs, hasTokenized, dbId, maxLen,
                                         dbFiles, paths, result>>
             ELSE /\ failAt = 0
                  /\ removedFilesLookup' = removedFilesLookup \ {curPath}
                  /\ changedFiles' = changed1
                  /\ newFiles' = new1
                  /\ tokens' = tokens1
                  /\ hist' = [hist EXCEPT !.pass.tokenized = @ + 1,
                                          !.pass.queued = queued1]
                  /\ cur' = [cur EXCEPT !.tokenized = TRUE,
                                        !.calls = @ \cup {"TokenizeFile"}]
                  /\ NextPath
                  /\ UNCHANGED <<rnd, pool, tk, db, ui, app, fs, store, hasTokenized, dbId, maxLen,
                                 dbFiles, paths, result>>

\* "Delete tokens and entries of files that don't exist anymore": the map is
\* ranged over in any order
RECURSIVE RemovalStmts(_)
RemovalStmts(order) ==
  IF order = <<>> THEN <<>>
  ELSE DeleteFile(Head(order), TRUE) \o RemovalStmts(Tail(order))

\* the last flushTokens fails
FinishFlushFails(failAt) ==
  /\ pc = "finish"
  /\ failAt \in FailChoices(FlushStmts(changedFiles, newFiles, tokens)) \ {0}
  /\ LET r == flushTokens(store[dbId], changedFiles, newFiles, tokens, failAt)
     IN AbortStore(r.err, r.store, r.sent)

\* the last flushTokens succeeds and a DeleteFile of the removal loop fails
FinishRemovalFails(order, failAt) ==
  /\ pc = "finish"
  /\ failAt \in FailChoices(RemovalStmts(order)) \ {0}
  /\ LET r == flushTokens(store[dbId], changedFiles, newFiles, tokens, 0)
         d == Run(r.store, RemovalStmts(order), failAt)
     IN AbortStore(d.err, d.store, r.sent + d.sent)

\* the last flushTokens and the removal loop succeed: tokenizeDirectory
\* returns nil, Prompt sets hasTokenized and returns generatePrompt(maxLen)
FinishPass(order, withErr) ==
  /\ pc = "finish"
  /\ withErr => hist.events < MaxEvents
  /\ LET r == flushTokens(store[dbId], changedFiles, newFiles, tokens, 0)
         d == Run(r.store, RemovalStmts(order), 0)
     IN /\ store' = [store EXCEPT ![dbId] = d.store]
        /\ hasTokenized' = TRUE
        /\ \E g \in generatePrompt(d.store, maxLen, withErr) :
             result' = Returned(dbId, maxLen, g.prompt, g.err, TRUE)
        /\ hist' = EndPass([hist EXCEPT
                              !.events = IF withErr THEN @ + 1 ELSE @,
                              !.indexed = @ \cup {dbId},
                              !.pass.sent = @ + r.sent + d.sent],
                           "nil", d.store)
  /\ Return
  /\ UNCHANGED <<rnd, pool, tk, db, ui, app, fs, dbId>>

\* the file system changes under the directories whose paths are ps
FsStep(ps) ==
  \/ \E p \in ps, v \in FileVersions : FsWrite(p, v)
  \/ \E p \in ps : FsRemove(p)

\* a Prompt call of the caller, for one of the directories dirs and one of
\* the lengths lens
PromptStep(dirs, lens) ==
  \/ \E d \in dirs, ml \in lens, withErr \in BOOLEAN : PromptSample(d, ml, withErr)
  \/ \E d \in dirs, ml \in lens : PromptGetFilesFails(d, ml)
  \/ \E d \in dirs, ml \in lens : PromptTokenize(d, ml)

\* a step of the running index pass
PassStep ==
  \/ ProcStat
  \/ ProcIsText
  \/ ProcSize
  \/ ProcMtime
  \/ \E failAt \in 0..(Cardinality(Paths) + 3) : ProcTokenize(failAt)
  \/ \E failAt \in 1..(Cardinality(Paths) + 3) : FinishFlushFails(failAt)
  \/ \E order \in Orderings(removedFilesLookup),
        failAt \in 1..(2 * Cardinality(Paths)) : FinishRemovalFails(order, failAt)
  \/ \E order \in Orderings(removedFilesLookup), withErr \in BOOLEAN :
       FinishPass(order, withErr)

\* One directory and one prompt length, as the TUI uses the package, over a
\* changing file system.
Next ==
  \/ FsStep(Range(PathsOf("dA")))
  \/ Restart
  \/ PromptStep({"dA"}, {maxPromptLen})
  \/ PassStep

Spec == Init /\ [][Next]_vars

\* Two directories and several prompt lengths, over a file system that does
\* not change.
NextDirs ==
  \/ Restart
  \/ \E ml \in MaxLens : PromptInvalidDir(ml)
  \/ PromptStep(Dirs, MaxLens)
  \/ PassStep

SpecDirs == InitDirs /\ [][NextDirs]_vars

(***************************************************************************)
(* lazy.Sample and random.Shuffle run by themselves, one loop iteration a  *)
(* step, over the streams <<1, .., n>>: an item is its stream position.    *)
(***************************************************************************)
Items(n) == [i \in 1..n |-> i]

SampleCall(n, k) == [NoRnd EXCEPT !.op = "Sample", !.input = Items(n), !.k = k]

\* s := make([]T, len(slice)); copy(s, slice); i := len(s) - 1
ShuffleCall(n) == [NoRnd EXCEPT !.op = "Shuffle", !.input = Items(n),
                                !.out = Items(n), !.i = n - 1]

InitRandom ==
  /\ fs = [p \in Paths |-> Absent]
  /\ store = [d \in Dirs |-> EmptyStore]
  /\ InitProcess
  /\ pool = NoPool
  /\ tk = NoTk
  /\ db = NoDb
  /\ ui = NoUi
  /\ app = NoApp
  /\ rnd \in {SampleCall(n, k) : n \in 0..MaxStream, k \in 0..MaxK} \cup
             {ShuffleCall(n) : n \in 0..MaxSlice}

\* for item := range iter { ... i++ }, with the draw j when the body draws
SampleIter(j) ==
  /\ rnd.op = "Sample"
  /\ ~rnd.done
  /\ rnd.i < Len(rnd.input)
  /\ IF rnd.i < rnd.k THEN j = 0 ELSE j \in IntN(rnd.i + 1)
  /\ rnd' = [rnd EXCEPT
               !.out = SampleOne(@, rnd.input[rnd.i + 1], rnd.i, rnd.k, j),
               !.draws = IF rnd.i < rnd.k THEN @ ELSE Append(@, j),
               !.i = @ + 1]
  /\ UNCHANGED <<seqVars, pool, tk, db, ui, app>>

\* return sample
SampleReturn ==
  /\ rnd.op = "Sample"
  /\ ~rnd.done
  /\ rnd.i = Len(rnd.input)
  /\ rnd' = [rnd EXCEPT !.done = TRUE]
  /\ UNCHANGED <<seqVars, pool, tk, db, ui, app>>

\* for i := len(s) - 1; i > 0; i-- { j := rand.IntN(i + 1); swap }
ShuffleIter(j) ==
  /\ rnd.op = "Shuffle"
  /\ ~rnd.done
  /\ rnd.i > 0
  /\ j \in ShuffleDraw(rnd.i, Len(rnd.input))
  /\ rnd' = [rnd EXCEPT !.out = Swap(@, rnd.i + 1, j + 1),
                        !.draws = Append(@, j),
                        !.i = @ - 1]
  /\ UNCHANGED <<seqVars, pool, tk, db, ui, app>>

\* return s
ShuffleReturn ==
  /\ rnd.op = "Shuffle"
  /\ ~rnd.done
  /\ rnd.i <= 0
  /\ rnd' = [rnd EXCEPT !.done = TRUE]
  /\ UNCHANGED <<seqVars, pool, tk, db, ui, app>>

NextRandom ==
  \/ \E j \in IntN(MaxStream + 1) : SampleIter(j)
  \/ SampleReturn
  \/ \E j \in IntN(MaxSlice + 1) : ShuffleIter(j)
  \/ ShuffleReturn

SpecRandom == InitRandom /\ [][NextRandom]_vars

(***************************************************************************)
(* Package tokenizer.  A rune is a string of one character, a word or a    *)
(* token a sequence of runes.  The runes of the model: two lowercase and   *)
(* two uppercase letters of alphabet.AllRunes, two word delimiters, a      *)
(* digit (a token delimiter) and "#", which is in none of the three lists. *)
(***************************************************************************)
LowerCaseRunes == {"a", "b"}
UpperCaseRunes == {"A", "B"}
AllRunes == LowerCaseRunes \cup UpperCaseRunes
wordDelimiters == {" ", "\n"}
tokenDelimiters == {"1"}
Runes == AllRunes \cup wordDelimiters \cup tokenDelimiters \cup {"#"}

\* the runes of the strings given to TokenizeString and TokenizeFile
InputRunes == {"a", "A", "1", "#", " ", "\n"}

\* the sequences of up to n elements of S
RECURSIVE SeqsUpTo(_, _)
SeqsUpTo(S, n) ==
  IF n = 0 THEN {<<>>}
  ELSE LET shorter == SeqsUpTo(S, n - 1)
       IN shorter \cup {Append(q, x) : q \in {r \in shorter : Len(r) = n - 1},
                                       x \in S}

\* unicode.IsUpper
getRuneCase(r) == IF r \in UpperCaseRunes THEN "CaseUpper" ELSE "CaseLower"

NoSplit == [result |-> <<>>, currentToken |-> <<>>]

\* the closure flush of splitMixedCaseToken
SplitFlush(st) ==
  IF Len(st.currentToken) > 0
  THEN [result |-> Append(st.result, st.currentToken), currentToken |-> <<>>]
  ELSE st

\* the loop body of splitMixedCaseToken as it was before acronyms were
\* handled: a new subtoken at every uppercase rune but the first rune
SplitOneNoAcronym(word, i, st) ==
  [(IF i # 1 /\ getRuneCase(word[i]) = "CaseUpper" THEN SplitFlush(st) ELSE st)
     EXCEPT !.currentToken = Append(@, word[i])]

\* the loop body of splitMixedCaseToken for the rune word[i] (i counts from 1)
SplitOne(word, i, st) ==
  LET isPreviousLower == i > 1 /\ getRuneCase(word[i - 1]) = "CaseLower"
      isNextLower == i < Len(word) /\ getRuneCase(word[i + 1]) = "CaseLower"
  IN [(IF getRuneCase(word[i]) = "CaseUpper" /\ (isPreviousLower \/ isNextLower)
       THEN SplitFlush(st) ELSE st)
        EXCEPT !.currentToken = Append(@, word[i])]

RECURSIVE SplitLoop(_, _, _)
SplitLoop(word, i, st) ==
  IF i > Len(word) THEN st ELSE SplitLoop(word, i + 1, SplitOne(word, i, st))

splitMixedCaseToken(word) == SplitFlush(SplitLoop(word, 1, NoSplit)).result

\* isTokenValid as it would be if it accepted every rune
isTokenValidAny(token) == TRUE

\* isTokenValid: every rune is in alphabet.AllRunes
isTokenValid(token) == \A i \in DOMAIN token : token[i] \in AllRunes

\* strings.ToLower
ToLowerRune(r) == IF r = "A" THEN "a" ELSE IF r = "B" THEN "b" ELSE r
ToLower(token) == [i \in DOMAIN token |-> ToLowerRune(token[i])]

\* "for _, subtoken := range subtokens": the valid ones, lowercased
RECURSIVE LowerValid(_)
LowerValid(subtokens) ==
  IF subtokens = <<>> THEN <<>>
  ELSE (IF isTokenValid(Head(subtokens)) THEN <<ToLower(Head(subtokens))>>
        ELSE <<>>) \o LowerValid(Tail(subtokens))

NoWord == [tokens |-> <<>>, currentToken |-> <<>>]

\* the closure flush of tokenizeWord
WordFlush(st) ==
  [tokens |-> IF Len(st.currentToken) > 0 /\ isTokenValid(st.currentToken)
              THEN st.tokens \o LowerValid(splitMixedCaseToken(st.currentToken))
              ELSE st.tokens,
   currentToken |-> <<>>]

RECURSIVE WordLoop(_, _, _)
WordLoop(word, i, st) ==
  IF i > Len(word) THEN st
  ELSE WordLoop(word, i + 1,
                IF word[i] \in tokenDelimiters THEN WordFlush(st)
                ELSE [st EXCEPT !.currentToken = Append(@, word[i])])

tokenizeWord(word) == WordFlush(WordLoop(word, 1, NoWord)).tokens

\* the word filters of the model: 0 is nil (every word passes), a length n
\* is domain.isWordEligible with maxWordLen = n (24 in the source, scaled to
\* the model's strings)
ShortWordLen == 2
WordFilters == {0, ShortWordLen}
wordFilter(filter, word) == filter = 0 \/ Len(word) < filter

\* flush as it would be if the word were split first and the filter applied
\* to each of its tokens
StringFlushPerToken(filter, st) ==
  [tokens |-> st.tokens \o
                SelectSeq(tokenizeWord(st.currentWord),
                          LAMBDA t : wordFilter(filter, t)),
   currentWord |-> <<>>]

\* the closure flush of TokenizeString; st is <<tokens, currentWord>>
StringFlush(filter, st) ==
  [tokens |-> IF wordFilter(filter, st.currentWord)
              THEN st.tokens \o tokenizeWord(st.currentWord)
              ELSE st.tokens,
   currentWord |-> <<>>]

\* the loop body of TokenizeString for the rune r
StringOne(filter, r, st) ==
  IF r \in wordDelimiters THEN StringFlush(filter, st)
  ELSE [st EXCEPT !.currentWord = Append(@, r)]

RECURSIVE StringLoop(_, _, _, _)
StringLoop(filter, str, i, st) ==
  IF i > Len(str) THEN st
  ELSE StringLoop(filter, str, i + 1, StringOne(filter, str[i], st))

TokenizeString(str, filter) ==
  StringFlush(filter, StringLoop(filter, str, 1,
                                 [tokens |-> <<>>, currentWord |-> <<>>])).tokens

\* bufio.Reader.ReadString('\n') on a file of which i runes have been read:
\* the runes up to and including the next newline; when the file ends before
\* a newline, the runes left together with io.EOF
ReadString(content, i) ==
  IF \E j \in (i + 1)..Len(content) : content[j] = "\n"
  THEN LET j == CHOOSE j \in (i + 1)..Len(content) :
                  /\ content[j] = "\n"
                  /\ \A h \in (i + 1)..(j - 1) : content[h] # "\n"
       IN [line |-> SubSeq(content, i + 1, j), err |-> "nil", i |-> j]
  ELSE [line |-> SubSeq(content, i + 1, Len(content)), err |-> "EOF",
        i |-> Len(content)]

\* the loop of TokenizeFile when no read fails
RECURSIVE FileLoop(_, _, _, _)
FileLoop(content, filter, i, toks) ==
  LET read == ReadString(content, i)
  IN IF read.err = "EOF" THEN toks
     ELSE FileLoop(content, filter, read.i,
                   toks \o TokenizeString(read.line, filter))

TokenizeFile(content, filter) == FileLoop(content, filter, 0, <<>>)

(***************************************************************************)
(* The tokenizer run by itself: splitMixedCaseToken on an identifier, a    *)
(* rune a step; TokenizeString on a string, a rune a step; TokenizeFile on *)
(* a file content, a line a step.                                          *)
(***************************************************************************)
SplitCall(word) == [NoTk EXCEPT !.op = "splitMixedCaseToken", !.input = word]

StringCall(str, filter) ==
  [NoTk EXCEPT !.op = "TokenizeString", !.input = str, !.filter = filter]

FileCall(content, filter) ==
  [NoTk EXCEPT !.op = "TokenizeFile", !.input = content, !.filter = filter]

InitTokenizer ==
  /\ fs = [p \in Paths |-> Absent]
  /\ store = [d \in Dirs |-> EmptyStore]
  /\ InitProcess
  /\ rnd = NoRnd
  /\ pool = NoPool
  /\ db = NoDb
  /\ ui = NoUi
  /\ app = NoApp
  /\ tk \in {SplitCall(word) : word \in SeqsUpTo(AllRunes, MaxWord)} \cup
            {StringCall(str, filter) :
               str \in SeqsUpTo(InputRunes, MaxInput), filter \in WordFilters} \cup
            {FileCall(content, filter) :
               content \in SeqsUpTo(InputRunes, MaxInput), filter \in WordFilters}

\* for i, r := range word { ... }
SplitIter ==
  /\ tk.op = "splitMixedCaseToken"
  /\ ~tk.done
  /\ tk.i < Len(tk.input)
  /\ LET st == SplitOne(tk.input, tk.i + 1,
                        [result |-> tk.result, currentToken |-> tk.current])
     IN tk' = [tk EXCEPT !.result = st.result, !.current = st.currentToken,
                         !.i = @ + 1]
  /\ UNCHANGED <<rnd, pool, db, ui, app, seqVars>>

\* flush(); return result
SplitReturn ==
  /\ tk.op = "splitMixedCaseToken"
  /\ ~tk.done
  /\ tk.i = Len(tk.input)
  /\ tk' = [tk EXCEPT
              !.result = SplitFlush([result |-> tk.result,
                                     currentToken |-> tk.current]).result,
              !.current = <<>>,
              !.done = TRUE]
  /\ UNCHANGED <<rnd, pool, db, ui, app, seqVars>>

\* for _, r := range s { ... }
StringIter ==
  /\ tk.op = "TokenizeString"
  /\ ~tk.done
  /\ tk.i < Len(tk.input)
  /\ LET st == StringOne(tk.filter, tk.input[tk.i + 1],
                         [tokens |-> tk.result, currentWord |-> tk.current])
     IN tk' = [tk EXCEPT !.result = st.tokens, !.current = st.currentWord,
                         !.i = @ + 1]
  /\ UNCHANGED <<rnd, pool, db, ui, app, seqVars>>

\* flush(); return tokens
StringReturn ==
  /\ tk.op = "TokenizeString"
  /\ ~tk.done
  /\ tk.i = Len(tk.input)
  /\ tk' = [tk EXCEPT
              !.result = StringFlush(tk.filter,
                                     [tokens |-> tk.result,
                                      currentWord |-> tk.current]).tokens,
              !.current = <<>>,
              !.done = TRUE]
  /\ UNCHANGED <<rnd, pool, db, ui, app, seqVars>>

\* one round of the loop of TokenizeFile: ReadString, then break on io.EOF,
\* or tokenize the line; a read that fails returns the tokens and the error
TokenizeFileRead(fails) ==
  /\ tk.op = "TokenizeFile"
  /\ ~tk.done
  /\ LET read == ReadString(tk.input, tk.i)
     IN IF fails
        THEN tk' = [tk EXCEPT !.err = "ErrRead", !.done = TRUE]
        ELSE IF read.err = "EOF"
        THEN tk' = [tk EXCEPT !.i = read.i, !.done = TRUE]
        ELSE tk' = [tk EXCEPT
                      !.i = read.i,
                      !.result = @ \o TokenizeString(read.line, tk.filter)]
  /\ UNCHANGED <<rnd, pool, db, ui, app, seqVars>>

NextTokenizer ==
  \/ SplitIter
  \/ SplitReturn
  \/ StringIter
  \/ StringReturn
  \/ \E fails \in BOOLEAN : TokenizeFileRead(fails)

SpecTokenizer == InitTokenizer /\ [][NextTokenizer]_vars

(***************************************************************************)
(* Package ui: the model of the terminal interface and its Update, one     *)
(* action a message.  A fetch command runs domain.Prompt outside Update    *)
(* and delivers its result as a promptFetchedMsg; ui.inFlight counts the   *)
(* fetch commands that run, ui.panicked is set when Update indexes the     *)
(* prompt out of range.                                                    *)
(***************************************************************************)
\* the stores of the directory the interface is launched on: an empty one
\* and one with two tokens
UiStores ==
  {EmptyStore,
   [files |-> {File("a1", 10, 0)},
    tokens |-> {Token("a1", TokFoo), Token("a1", TokBar)}]}

\* what domain.Prompt(m.dirPath, maxPromptLen) returns on an indexed store
FetchResults(st) ==
  generatePrompt(st, maxPromptLen, FALSE) \cup generatePrompt(st, maxPromptLen, TRUE)

\* the keys of allowedInputRunes that are pressed
InputKeys == {"o", " "}

\* initialModel: the zero value of appState is StateLoading
initialModel(st) ==
  [appState |-> "StateLoading", prompt |-> <<>>, input |-> <<>>,
   promptPool |-> <<>>, promptsBeingFetched |-> 0, err |-> "nil",
   inited |-> FALSE, quit |-> FALSE, panicked |-> FALSE, inFlight |-> 0,
   store |-> st]

cursor(m) == Len(m.input)

load(m) == [m EXCEPT !.appState = "StateLoading"]

ready(m) == [m EXCEPT !.input = <<>>, !.appState = "StateReady"]

start(m) == [m EXCEPT !.appState = "StateSession"]

stop(m) == [m EXCEPT !.appState = "StateBreak"]

\* fetchMorePromptsIfNeeded as it would be without the test of
\* promptsBeingFetched
fetchMoreWhileFetching(m) ==
  IF Len(m.promptPool) >= promptPoolSize THEN m
  ELSE [m EXCEPT !.promptsBeingFetched = @ + 1, !.inFlight = @ + 1]

\* fetchMorePromptsIfNeeded: the model and the command, which is a fetch
\* that starts to run
fetchMorePromptsIfNeeded(m) ==
  IF Len(m.promptPool) >= promptPoolSize \/ m.promptsBeingFetched > 0 THEN m
  ELSE [m EXCEPT !.promptsBeingFetched = @ + 1, !.inFlight = @ + 1]

\* acceptPrompt as it would be if it did not count the fetch as returned
acceptPromptKeepsCount(m, prompt) ==
  [m EXCEPT !.promptPool = Append(@, prompt)]

acceptPrompt(m, prompt) ==
  [m EXCEPT !.promptsBeingFetched = @ - 1, !.promptPool = Append(@, prompt)]

consumePrompt(m) ==
  IF Len(m.promptPool) = 0 THEN m
  ELSE [m EXCEPT !.prompt = Head(m.promptPool), !.promptPool = Tail(@)]

handleBackspace(m) ==
  IF cursor(m) = 0 THEN m
  ELSE [m EXCEPT !.input = SubSeq(@, 1, Len(@) - 1)]

\* the loop of handleCtrlBackspace: back to the start of the word
RECURSIVE CtrlBackspaceLoop(_, _)
CtrlBackspaceLoop(m, c) ==
  IF c > 0 /\ (m.prompt[c] # " " \/ c = cursor(m))
  THEN CtrlBackspaceLoop(m, c - 1)
  ELSE c

handleCtrlBackspace(m) ==
  [m EXCEPT !.input = SubSeq(@, 1, CtrlBackspaceLoop(m, cursor(m)))]

InitUi ==
  /\ fs = [p \in Paths |-> Absent]
  /\ store = [d \in Dirs |-> EmptyStore]
  /\ InitProcess
  /\ rnd = NoRnd
  /\ pool = NoPool
  /\ tk = NoTk
  /\ db = NoDb
  /\ app = NoApp
  /\ ui \in {initialModel(st) : st \in UiStores}

\* Update runs while the program has not quit or panicked
Running == ~ui.quit /\ ~ui.panicked

\* case initMsg
UiInit ==
  /\ Running
  /\ ~ui.inited
  /\ ui' = [fetchMorePromptsIfNeeded(load(ui)) EXCEPT !.inited = TRUE]
  /\ UNCHANGED <<seqVars, rnd, pool, tk, db, app>>

\* case tea.KeyMsg that matches globalKeys.Quit
UiQuit ==
  /\ Running
  /\ ui' = [ui EXCEPT !.quit = TRUE]
  /\ UNCHANGED <<seqVars, rnd, pool, tk, db, app>>

\* StateBreak, breakKeys.Restart
UiRestart ==
  /\ Running
  /\ ui.appState = "StateBreak"
  /\ ui' = IF Len(ui.promptPool) = 0
           THEN fetchMorePromptsIfNeeded(load(ui))
           ELSE fetchMorePromptsIfNeeded(ready(consumePrompt(ui)))
  /\ UNCHANGED <<seqVars, rnd, pool, tk, db, app>>

\* StateSession or StateReady, "backspace"
UiBackspace ==
  /\ Running
  /\ ui.appState \in {"StateSession", "StateReady"}
  /\ ui' = handleBackspace(ui)
  /\ UNCHANGED <<seqVars, rnd, pool, tk, db, app>>

\* StateSession or StateReady, "ctrl+backspace" or "ctrl+w"
UiCtrlBackspace ==
  /\ Running
  /\ ui.appState \in {"StateSession", "StateReady"}
  /\ ui' = handleCtrlBackspace(ui)
  /\ UNCHANGED <<seqVars, rnd, pool, tk, db, app>>

\* StateSession or StateReady, a key of allowedInputRunes: the session
\* starts, promptRunes[m.cursor()] is read (a panic when the index is out of
\* range), the key is appended and the session stops at the end of the prompt
UiKey(k) ==
  /\ Running
  /\ ui.appState \in {"StateSession", "StateReady"}
  /\ LET m == IF ui.appState = "StateReady" THEN start(ui) ELSE ui
     IN IF cursor(m) >= Len(m.prompt)
        THEN ui' = [m EXCEPT !.panicked = TRUE]
        ELSE LET typed == [m EXCEPT !.input = Append(@, k)]
             IN ui' = IF cursor(typed) >= Len(typed.prompt) THEN stop(typed)
                      ELSE typed
  /\ UNCHANGED <<seqVars, rnd, pool, tk, db, app>>

\* a fetch command returns and its promptFetchedMsg is handled
UiPromptFetched(r) ==
  /\ Running
  /\ ui.inFlight > 0
  /\ r \in FetchResults(ui.store)
  /\ ui' = IF r.err # "nil"
           THEN [ui EXCEPT !.err = r.err, !.quit = TRUE, !.inFlight = @ - 1]
           ELSE LET got == [acceptPrompt(ui, r.prompt) EXCEPT !.inFlight = @ - 1]
                    m == IF got.appState = "StateLoading"
                         THEN ready(consumePrompt(got)) ELSE got
                IN fetchMorePromptsIfNeeded(m)
  /\ UNCHANGED <<seqVars, rnd, pool, tk, db, app>>

NextUi ==
  \/ UiInit
  \/ UiQuit
  \/ UiRestart
  \/ UiBackspace
  \/ UiCtrlBackspace
  \/ \E k \in InputKeys : UiKey(k)
  \/ \E st \in UiStores : \E r \in FetchResults(st) : UiPromptFetched(r)

SpecUi == InitUi /\ [][NextUi]_vars

\* every fetch command returns and its message is handled
FairSpecUi ==
  SpecUi /\ WF_vars(\E st \in UiStores : \E r \in FetchResults(st) : UiPromptFetched(r))

(***************************************************************************)
(* Packages config and data of the process: config.Init, config.PurgeCache,*)
(* data.Setup and data.Teardown.  A path is the sequence of its elements,  *)
(* the empty path is the empty string.                                     *)
(***************************************************************************)
\* the result of os.UserCacheDir
UserCacheDir == <<"home", ".cache">>
AppName == "typomat"

\* filepath.Join: empty elements are dropped
JoinPath(a, b) == a \o b

\* the directories that Init is documented to create
AppOwnedDir == JoinPath(UserCacheDir, <<AppName>>)
OwnedTempDbDir == JoinPath(AppOwnedDir, <<"db", "tmp">>)
OwnedCachedDbDir == JoinPath(AppOwnedDir, <<"db", "cache">>)

\* path p lies inside directory dir
IsUnder(p, dir) ==
  /\ Len(p) > Len(dir)
  /\ SubSeq(p, 1, Len(dir)) = dir

\* hex(sha256(dirPath)) + ".db"
HashedDb == [d \in {"dA", "dB"} |-> IF d = "dA" THEN "hA.db" ELSE "hB.db"]

NoTeardown == [called |-> FALSE, attempts |-> 0, waits |-> <<>>,
               closed |-> FALSE, ret |-> "none", dbWas |-> "nil",
               closeRes |-> "none", outcomes |-> <<>>]

\* the package variables of config and data before main runs; data.init has
\* made the context
InitialApp ==
  [phase |-> "start",
   appDir |-> <<>>, dbDir |-> <<>>, tempDbDir |-> <<>>, cachedDbDir |-> <<>>,
   created |-> {}, initRet |-> "none",
   db |-> "nil", dbPath |-> <<>>, setupRet |-> "none", setups |-> 0,
   cancelled |-> FALSE, removals |-> {}, purged |-> FALSE,
   td |-> NoTeardown]

TempDbDir(a) == a.tempDbDir
CachedDbDir(a) == a.cachedDbDir

\* config.Init: tempDbDir and cachedDbDir are declared with := in the body,
\* the package variables of the same names are not assigned.  failAt is the
\* directory at which os.MkdirAll fails (0: at none)
ConfigInit(cacheDirOk, failAt, loggerOk) ==
  /\ app.phase = "start"
  /\ app.initRet = "none"
  /\ IF ~cacheDirOk
       THEN app' = [app EXCEPT !.initRet = "ErrInit"]
       ELSE LET appDirL == JoinPath(UserCacheDir, <<AppName>>)
                dbDirL == JoinPath(appDirL, <<"db">>)
                logDir == JoinPath(appDirL, <<"logs">>)
                tempL == JoinPath(dbDirL, <<"tmp">>)
                cachedL == JoinPath(dbDirL, <<"cache">>)
                dirs == <<appDirL, dbDirL, logDir, tempL, cachedL>>
                made == {dirs[j] : j \in {j \in 1..Len(dirs) :
                                            failAt = 0 \/ j < failAt}}
            IN app' = [app EXCEPT
                 !.appDir = appDirL,
                 !.dbDir = dbDirL,
                 !.created = made,
                 !.initRet = IF failAt # 0 THEN "ErrInit"
                             ELSE IF ~loggerOk THEN "err"
                             ELSE "nil"]
  /\ UNCHANGED <<seqVars, rnd, pool, tk, db, ui>>

\* config.PurgeCache: files.RemoveChildren(cachedDbDir)
PurgeCache(ok) ==
  /\ app.phase = "start"
  /\ app.initRet = "nil"
  /\ app.setups = 0
  /\ ~app.purged
  /\ app' = [app EXCEPT !.purged = TRUE,
                        !.removals = @ \cup {app.cachedDbDir}]
  /\ UNCHANGED <<seqVars, rnd, pool, tk, db, ui>>

\* data.Setup; gorm.Open's first result is assigned to db also when it fails
Setup(dirPath, useCache, cacheExists, outcome, failedDb) ==
  /\ app.phase = "start"
  /\ app.initRet = "nil"
  /\ app.setups < MaxSetups
  /\ ~app.td.called
  /\ LET cachedDbPath == JoinPath(CachedDbDir(app), <<HashedDb[dirPath]>>)
         path == IF cacheExists \/ useCache
                   THEN cachedDbPath
                   ELSE JoinPath(TempDbDir(app), <<HashedDb[dirPath]>>)
     IN app' =
          CASE outcome = "existsErr" ->
                 [app EXCEPT !.setups = @ + 1, !.setupRet = "ErrConn"]
            [] outcome = "openErr" ->
                 [app EXCEPT !.setups = @ + 1, !.setupRet = "ErrConn",
                             !.dbPath = path, !.db = failedDb]
            [] outcome = "migrateErr" ->
                 [app EXCEPT !.setups = @ + 1, !.setupRet = "ErrQuery",
                             !.dbPath = path, !.db = "open"]
            [] OTHER ->
                 [app EXCEPT !.setups = @ + 1, !.setupRet = "nil",
                             !.dbPath = path, !.db = "open"]
  /\ UNCHANGED <<seqVars, rnd, pool, tk, db, ui>>

RECURSIVE Exp2(_)
Exp2(i) == IF i = 0 THEN 1 ELSE 2 * Exp2(i - 1)

\* a retry loop that waits baseTimeout after every failed attempt
RECURSIVE RemoveLoopNoBackoff(_, _, _)
RemoveLoopNoBackoff(i, outcomes, waits) ==
  IF i >= deleteRetries
    THEN [attempts |-> i, waits |-> waits, ret |-> "nil"]
    ELSE IF outcomes[i + 1]
           THEN [attempts |-> i + 1, waits |-> waits, ret |-> "nil"]
           ELSE IF i < deleteRetries - 1
                  THEN RemoveLoopNoBackoff(i + 1, outcomes,
                                           Append(waits, baseTimeout))
                  ELSE [attempts |-> i + 1, waits |-> waits,
                        ret |-> "ErrCleanup"]

\* the retry loop of Teardown from attempt i (0-based); outcomes[i + 1] tells
\* whether files.RemoveChildren succeeds at that attempt
RECURSIVE RemoveLoop(_, _, _)
RemoveLoop(i, outcomes, waits) ==
  IF i >= deleteRetries
    THEN [attempts |-> i, waits |-> waits, ret |-> "nil"]
    ELSE IF outcomes[i + 1]
           THEN [attempts |-> i + 1, waits |-> waits, ret |-> "nil"]
           ELSE IF i < deleteRetries - 1
                  THEN RemoveLoop(i + 1, outcomes,
                                  Append(waits, Exp2(i) * baseTimeout))
                  ELSE [attempts |-> i + 1, waits |-> waits,
                        ret |-> "ErrCleanup"]

\* data.Teardown; closeRes is the outcome of db.DB() and sqlDB.Close()
Teardown(closeRes, outcomes) ==
  /\ app.phase = "start"
  /\ app.initRet = "nil"
  /\ ~app.td.called
  /\ IF app.db = "nil"
       THEN app' = [app EXCEPT !.cancelled = TRUE,
                               !.td = [NoTeardown EXCEPT !.called = TRUE,
                                                         !.ret = "nil"]]
       ELSE IF closeRes # "ok"
         THEN app' = [app EXCEPT !.cancelled = TRUE,
                                 !.td = [NoTeardown EXCEPT
                                           !.called = TRUE,
                                           !.dbWas = app.db,
                                           !.closeRes = closeRes,
                                           !.ret = "ErrCleanup"]]
         ELSE LET r == RemoveLoop(0, outcomes, <<>>)
              IN app' = [app EXCEPT
                   !.cancelled = TRUE,
                   !.db = "closed",
                   !.removals = @ \cup {TempDbDir(app)},
                   !.td = [called |-> TRUE, attempts |-> r.attempts,
                           waits |-> r.waits, closed |-> TRUE,
                           ret |-> r.ret, dbWas |-> app.db,
                           closeRes |-> closeRes, outcomes |-> outcomes]]
  /\ UNCHANGED <<seqVars, rnd, pool, tk, db, ui>>

InitApp ==
  /\ fs = [p \in Paths |-> Absent]
  /\ store = [d \in Dirs |-> EmptyStore]
  /\ InitProcess
  /\ rnd = NoRnd
  /\ pool = NoPool
  /\ tk = NoTk
  /\ db = NoDb
  /\ ui = NoUi
  /\ app = InitialApp

NextApp ==
  \/ \E c \in BOOLEAN : \E n \in 0..5 : \E l \in BOOLEAN : ConfigInit(c, n, l)
  \/ \E ok \in BOOLEAN : PurgeCache(ok)
  \/ \E d \in {"dA", "dB"} : \E u \in BOOLEAN : \E c \in BOOLEAN :
       \E o \in {"ok", "existsErr", "openErr", "migrateErr"} :
         \E f \in {"nil", "invalid"} : Setup(d, u, c, o, f)
  \/ \E c \in {"ok", "dbErr", "closeErr"} :
       \E o \in [1..deleteRetries -> BOOLEAN] : Teardown(c, o)

SpecApp == InitApp /\ [][NextApp]_vars

(***************************************************************************)
(* The second half of generatePrompt run by itself: the packing loop and   *)
(* strings.Join over a shuffled list of stored tokens, for a prompt length *)
(* and the sample size that generatePrompt computes from it.               *)
(***************************************************************************)
\* stored tokens: eligible ones of three and five runes
PackTokens == {TokFoo, TokBar, TokHello}

PackCall(shuffled, ml) ==
  [NoRnd EXCEPT !.op = "Pack", !.input = shuffled, !.maxLen = ml,
                !.k = maxWordsNeeded(ml)]

InitPack ==
  /\ fs = [p \in Paths |-> Absent]
  /\ store = [d \in Dirs |-> EmptyStore]
  /\ InitProcess
  /\ pool = NoPool
  /\ tk = NoTk
  /\ db = NoDb
  /\ ui = NoUi
  /\ app = NoApp
  /\ rnd \in {PackCall(shuffled, ml) :
                shuffled \in SeqsUpTo(PackTokens, MaxPack), ml \in 0..maxPromptLen}

\* the loop over shuffled and the return of generatePrompt
PackReturn ==
  /\ rnd.op = "Pack"
  /\ ~rnd.done
  /\ LET promptTokens == Pack(rnd.input, 0, 0, <<>>, rnd.maxLen)
     IN rnd' = [rnd EXCEPT !.out = promptTokens, !.prompt = Join(promptTokens),
                           !.done = TRUE]
  /\ UNCHANGED <<seqVars, pool, tk, db, ui, app>>

NextPack == PackReturn

SpecPack == InitPack /\ [][NextPack]_vars

(***************************************************************************)
(* Package data run by itself: one call of UpsertFiles, UpsertTokens,      *)
(* DeleteFile or DeleteTokensOfFile on a store, and an iteration of        *)
(* IterUniqueTokens, a row a step.                                         *)
(***************************************************************************)
\* the slices records[i : i+batchSize] of CreateInBatches
RECURSIVE RecordBatches(_)
RecordBatches(records) ==
  IF records = <<>> THEN <<>>
  ELSE IF Len(records) <= batchSize THEN <<records>>
  ELSE <<SubSeq(records, 1, batchSize)>> \o
       RecordBatches(SubSeq(records, batchSize + 1, Len(records)))

\* CreateInBatches with OnConflict{UpdateAll: true}: one INSERT a batch
RECURSIVE CreateInBatches(_, _, _)
CreateInBatches(st, kind, batches) ==
  IF batches = <<>> THEN st
  ELSE CreateInBatches(Exec(st, Stmt(kind, "", Head(batches))), kind,
                       Tail(batches))

\* the rows of the query of IterUniqueTokens as they would be without
\* DISTINCT: the value of every Token row
QueryRowsNoDistinct(st) ==
  {[i \in DOMAIN p |-> p[i].Value] : p \in Orderings(st.tokens)}

\* db.Model(&Token{}).Distinct("value").Rows(): the distinct values, in an
\* order that the database chooses
QueryRows(st) == Orderings({t.Value : t \in st.tokens})

DataPaths == Range(PathsOf("dA"))
DataValues == {TokFoo, TokBar}
FileRecords == {File(p, size, 0) : p \in DataPaths, size \in {10, 11}}
TokenRecords == {Token(p, v) : p \in DataPaths, v \in DataValues}

\* a store of the two paths: at most one File row a path, any Token rows
InitData ==
  /\ fs = [p \in Paths |-> Absent]
  /\ store = [d \in Dirs |-> EmptyStore]
  /\ InitProcess
  /\ rnd = NoRnd
  /\ pool = NoPool
  /\ tk = NoTk
  /\ \E files \in SUBSET FileRecords, toks \in SUBSET TokenRecords :
       /\ \A f, g \in files : f.Path = g.Path => f = g
       /\ db = [NoDb EXCEPT !.store = [files |-> files, tokens |-> toks]]
       /\ ui = NoUi
       /\ app = NoApp

\* a behaviour is one call on the store or one iteration over it
CanCall == db.last.op = "none" /\ db.it.state = "none"

\* UpsertFiles(files); a failing INSERT leaves the store as it was (batches
\* in a list longer than batchSize run in one transaction)
DbUpsertFiles(files, fails) ==
  /\ CanCall
  /\ fails => files # <<>>
  /\ db' = [db EXCEPT
              !.store = IF fails THEN @
                        ELSE CreateInBatches(@, "upsertFiles",
                                             RecordBatches(files)),
              !.last = [NoCall EXCEPT !.op = "UpsertFiles", !.store0 = db.store,
                                      !.files = files,
                                      !.err = IF fails THEN "ErrQuery" ELSE "nil"]]
  /\ UNCHANGED <<rnd, pool, tk, ui, app, seqVars>>

\* UpsertTokens(tokens)
DbUpsertTokens(toks, fails) ==
  /\ CanCall
  /\ fails => toks # <<>>
  /\ db' = [db EXCEPT
              !.store = IF fails THEN @
                        ELSE CreateInBatches(@, "upsertTokens",
                                             RecordBatches(toks)),
              !.last = [NoCall EXCEPT !.op = "UpsertTokens", !.store0 = db.store,
                                      !.tokens = toks,
                                      !.err = IF fails THEN "ErrQuery" ELSE "nil"]]
  /\ UNCHANGED <<rnd, pool, tk, ui, app, seqVars>>

\* DeleteFile(file, cascade): failAt is the statement that fails, 0 for none
DbDeleteFile(path, cascade, failAt) ==
  /\ CanCall
  /\ failAt \in {0} \cup FailPoints(DeleteFile(path, cascade))
  /\ LET r == Run(db.store, DeleteFile(path, cascade), failAt)
     IN db' = [db EXCEPT
                 !.store = r.store,
                 !.last = [NoCall EXCEPT !.op = "DeleteFile",
                                         !.store0 = db.store, !.path = path,
                                         !.cascade = cascade, !.err = r.err]]
  /\ UNCHANGED <<rnd, pool, tk, ui, app, seqVars>>

\* DeleteTokensOfFile(path)
DbDeleteTokensOfFile(path, fails) ==
  /\ CanCall
  /\ db' = [db EXCEPT
              !.store = IF fails THEN @ ELSE DeleteTokensOfFile(@, path),
              !.last = [NoCall EXCEPT !.op = "DeleteTokensOfFile",
                                      !.store0 = db.store, !.path = path,
                                      !.err = IF fails THEN "ErrQuery" ELSE "nil"]]
  /\ UNCHANGED <<rnd, pool, tk, ui, app, seqVars>>

\* IterUniqueTokens: the query; when it fails the error result is yielded
\* and the iterator returns
IterQuery(rows, fails) ==
  /\ CanCall
  /\ rows \in QueryRows(db.store)
  /\ db' = [db EXCEPT !.it =
              IF fails
              THEN [NoIter EXCEPT !.state = "returned",
                                  !.yielded = <<TokenResult(<<>>, "ErrQuery")>>]
              ELSE [NoIter EXCEPT !.state = "rows", !.rows = rows]]
  /\ UNCHANGED <<rnd, pool, tk, ui, app, seqVars>>

\* rows.Next() is true: the scan fails and the error result is yielded, or
\* the token is yielded; the iterator returns after an error result and when
\* yield returns false, that is when the consumer stops
IterNext(scanFails, consumerStops) ==
  /\ db.it.state = "rows"
  /\ db.it.next < Len(db.it.rows)
  /\ scanFails => ~consumerStops
  /\ db' = [db EXCEPT !.it =
              IF scanFails
              THEN [@ EXCEPT !.state = "returned",
                             !.yielded = Append(@, TokenResult(<<>>, "ErrQuery"))]
              ELSE [@ EXCEPT
                      !.state = IF consumerStops THEN "returned" ELSE "rows",
                      !.stopped = consumerStops,
                      !.next = @ + 1,
                      !.yielded = Append(@, TokenResult(db.it.rows[db.it.next + 1],
                                                        "nil"))]]
  /\ UNCHANGED <<rnd, pool, tk, ui, app, seqVars>>

\* rows.Next() is false: the iterator returns
IterEnd ==
  /\ db.it.state = "rows"
  /\ db.it.next = Len(db.it.rows)
  /\ db' = [db EXCEPT !.it.state = "returned"]
  /\ UNCHANGED <<rnd, pool, tk, ui, app, seqVars>>

\* openDb(id): a cached handle is returned; otherwise gorm.Open, which may
\* fail, then AutoMigrate of Token and File, which fails when the database
\* would fail the next `failures` migrations; the handle is cached after
\* both migrations
OpenDb(id, connFails, failures) ==
  /\ db.it.state = "none"
  /\ db.last.op \in {"none", "openDb"}
  /\ db.opens < MaxOpens
  /\ LET cached == db.dbCache[id] # 0
         call == [NoCall EXCEPT !.op = "openDb", !.id = id, !.cached = cached,
                                !.store0 = db.last.store0]
     IN IF cached
        THEN /\ ~connFails /\ failures = 0
             /\ db' = [db EXCEPT !.opens = @ + 1,
                                 !.last = [call EXCEPT !.handle = db.dbCache[id]]]
        ELSE IF connFails
        THEN /\ failures = 0
             /\ db' = [db EXCEPT !.opens = @ + 1,
                                 !.last = [call EXCEPT !.err = "ErrDbConnection"]]
        ELSE IF failures > 0
        THEN db' = [db EXCEPT !.opens = @ + 1,
                              !.last = [call EXCEPT !.err = "ErrDbOperation",
                                                    !.migrations = 1,
                                                    !.failures = failures]]
        ELSE db' = [db EXCEPT !.opens = @ + 1,
                              !.dbCache[id] = db.opens + 1,
                              !.last = [call EXCEPT !.handle = db.opens + 1,
                                                    !.migrations = 1]]
  /\ UNCHANGED <<rnd, pool, tk, ui, app, seqVars>>

NextData ==
  \/ \E id \in Dirs, connFails \in BOOLEAN, failures \in 0..MaxMigrateFailures :
       OpenDb(id, connFails, failures)
  \/ \E files \in SeqsUpTo(FileRecords, MaxRecords), fails \in BOOLEAN :
       DbUpsertFiles(files, fails)
  \/ \E toks \in SeqsUpTo(TokenRecords, MaxRecords), fails \in BOOLEAN :
       DbUpsertTokens(toks, fails)
  \/ \E path \in DataPaths, cascade \in BOOLEAN, failAt \in 0..2 :
       DbDeleteFile(path, cascade, failAt)
  \/ \E path \in DataPaths, fails \in BOOLEAN : DbDeleteTokensOfFile(path, fails)
  \/ \E rows \in QueryRows(db.store), fails \in BOOLEAN : IterQuery(rows, fails)
  \/ \E scanFails, consumerStops \in BOOLEAN : IterNext(scanFails, consumerStops)
  \/ IterEnd

SpecData == InitData /\ [][NextData]_vars

(***************************************************************************)
(* tokenizeDirectory as a function: the store it leaves when no call fails *)
(* and the file system fsys does not change while it runs.                 *)
(***************************************************************************)
RECURSIVE TokenizeLoop(_, _, _, _, _, _, _)
TokenizeLoop(st, ps, dbFileLookup, fsys, changed, new, toks) ==
  IF ps = <<>>
  THEN flushTokens(st, changed, new, toks, 0).store
  ELSE LET p == Head(ps)
           file == File(p, fsys[p].size, fsys[p].mtime)
           fileStatus == FileStatus(file, dbFileLookup)
           changed1 == IF fileStatus = "Changed" THEN Append(changed, file)
                       ELSE changed
           new1 == IF fileStatus = "New" THEN Append(new, file) ELSE new
           toks1 == toks \o getUniqueTokensOfFile(p, fsys[p].toks)
           r == flushTokens(st, changed1, new1, toks1, 0)
       IN IF ~(IsTextFile(fsys[p]) /\ fsys[p].size < maxFileSize)
             \/ fileStatus = "Unchanged"
          THEN TokenizeLoop(st, Tail(ps), dbFileLookup, fsys, changed, new, toks)
          ELSE IF Len(toks1) > tokenBufferSize
          THEN TokenizeLoop(r.store, Tail(ps), dbFileLookup, fsys,
                            r.changedFiles, r.newFiles, r.tokens)
          ELSE TokenizeLoop(st, Tail(ps), dbFileLookup, fsys, changed1, new1,
                            toks1)

tokenizeDirectory(st, dirPath, fsys) ==
  LET listed == LsFiles(dirPath, fsys)
      flushed == TokenizeLoop(st, listed, GetFiles(st), fsys, <<>>, <<>>, <<>>)
      removed == {f.Path : f \in GetFiles(st)} \ Range(listed)
      order == CHOOSE o \in Orderings(removed) : TRUE
  IN Run(flushed, RemovalStmts(order), 0).store

(***************************************************************************)
(* domain.ProcessDirectory: the paths are split into batches, one worker a *)
(* batch; a worker runs processFile on a path, a file being one step, and  *)
(* hands the result to the consumer over the shared channel; the consumer  *)
(* is the loop body of tokenizeDirectory applied to the results as they    *)
(* arrive.  The file system does not change during the run.                *)
(***************************************************************************)
\* a rewrite of FirstVersion that stat can tell from it
ChangedVersion == Version(11, 0, TRUE, ContentB)

\* processFile on a file that can be read
processFile(path, dbFileLookup, fsys) ==
  LET v == fsys[path]
      file == File(path, v.size, v.mtime)
      fileStatus == FileStatus(file, dbFileLookup)
  IN IF ~(IsTextFile(v) /\ v.size < maxFileSize)
     THEN [NoHeld EXCEPT !.path = path, !.status = "Ineligible"]
     ELSE IF SkipsTokenization(fileStatus)
     THEN [path |-> path, status |-> fileStatus, size |-> v.size,
           mtime |-> v.mtime, tokens |-> <<>>]
     ELSE [path |-> path, status |-> fileStatus, size |-> v.size,
           mtime |-> v.mtime, tokens |-> getUniqueTokensOfFile(path, v.toks)]

\* the number of batches: bounded by the parallelism and by the path count
NumBatches(ps) == IF Len(ps) < NumWorkers THEN Len(ps) ELSE NumWorkers

\* the paths in batches of consecutive paths, the last one the shortest
Batches(ps) ==
  LET n == NumBatches(ps)
      size == (Len(ps) + n - 1) \div n
  IN [w \in 1..n |->
        SubSeq(ps, (w - 1) * size + 1,
               IF w * size < Len(ps) THEN w * size ELSE Len(ps))]

Workers == DOMAIN pool.batches

\* files under the pool's directory, some of them indexed by a former process
InitPool ==
  /\ fs \in [Paths \cup Range(PathsOf(PoolDir)) ->
               {Absent, FirstVersion, ChangedVersion, OtherVersion,
                BinaryVersion}]
  /\ \A p \in Paths : fs[p] = Absent
  /\ fs["p1"] \in {FirstVersion, ChangedVersion}
  /\ fs["p2"] \in {OtherVersion, BinaryVersion}
  /\ fs["p3"] \in {Absent, FirstVersion}
  /\ \E S \in SUBSET Range(PathsOf(PoolDir)) :
       store = [d \in Dirs \cup {PoolDir} |->
                  IF d = PoolDir THEN IndexedStore(S) ELSE EmptyStore]
  /\ InitProcess
  /\ rnd = NoRnd
  /\ pool = NoPool
  /\ tk = NoTk
  /\ db = NoDb
  /\ ui = NoUi
  /\ app = NoApp

\* ProcessDirectory starts: GetFiles, LsFiles, the batches, one worker each
ProcessDirectory(dirPath) ==
  /\ pool.phase = "none"
  /\ LsFiles(dirPath, fs) # <<>>
  /\ dbId' = dirPath
  /\ dbFiles' = GetFiles(store[dirPath])
  /\ removedFilesLookup' = {f.Path : f \in GetFiles(store[dirPath])}
  /\ paths' = LsFiles(dirPath, fs)
  /\ pool' = [NoPool EXCEPT
                !.phase = "running",
                !.batches = Batches(LsFiles(dirPath, fs)),
                !.next = [w \in 1..NumBatches(LsFiles(dirPath, fs)) |-> 0],
                !.held = [w \in 1..NumBatches(LsFiles(dirPath, fs)) |-> NoHeld],
                !.worker = [w \in 1..NumBatches(LsFiles(dirPath, fs)) |-> "running"],
                !.consumer = "running",
                !.store0 = store[dirPath]]
  /\ UNCHANGED <<rnd, tk, db, ui, app, fs, store, hasTokenized, pc, maxLen, idx, changedFiles,
                 newFiles, tokens, cur, result, hist>>

\* a worker as it would be if it never looked at the cancellation signal
NeverObservesCancel == FALSE

\* a worker looks at the cancellation signal: between two files, and while
\* it waits to hand a result over
ObservesCancel == pool.cancelled

\* a hard error: the first one is the error of the run, and the signal is set
Cancel(pl, err) ==
  [pl EXCEPT !.cancelled = TRUE,
             !.err = IF pl.err = "nil" THEN err ELSE pl.err]

\* a worker takes the next path of its batch and runs processFile on it;
\* processFile fails when a system call on the file fails
WorkerProcess(w, fails) ==
  /\ pool.phase = "running"
  /\ pool.worker[w] = "running"
  /\ pool.held[w] = NoHeld
  /\ pool.next[w] < Len(pool.batches[w])
  /\ ~ObservesCancel
  /\ IF fails
     THEN /\ pool.events < MaxEvents
          /\ pool' = [Cancel(pool, "ErrFileOperation") EXCEPT
                        !.worker[w] = "failed", !.events = @ + 1]
     ELSE pool' = [pool EXCEPT
                     !.held[w] = processFile(pool.batches[w][pool.next[w] + 1],
                                             dbFiles, fs),
                     !.next[w] = @ + 1]
  /\ UNCHANGED <<rnd, tk, db, ui, app, seqVars>>

\* a worker hands its result over: the channel has room
WorkerSend(w) ==
  /\ pool.phase = "running"
  /\ pool.worker[w] = "running"
  /\ pool.held[w] # NoHeld
  /\ Len(pool.chan) < ChanCap
  /\ pool' = [pool EXCEPT !.chan = Append(@, pool.held[w]),
                          !.held[w] = NoHeld]
  /\ UNCHANGED <<rnd, tk, db, ui, app, seqVars>>

\* a worker observes the cancellation signal and returns; a result it holds
\* is not handed over
WorkerStop(w) ==
  /\ pool.phase = "running"
  /\ pool.worker[w] = "running"
  /\ ObservesCancel
  /\ pool' = [pool EXCEPT !.worker[w] = "cancelled"]
  /\ UNCHANGED <<rnd, tk, db, ui, app, seqVars>>

\* a worker has handed over the result of the last path of its batch
WorkerDone(w) ==
  /\ pool.phase = "running"
  /\ pool.worker[w] = "running"
  /\ pool.held[w] = NoHeld
  /\ pool.next[w] = Len(pool.batches[w])
  /\ pool' = [pool EXCEPT !.worker[w] = "done"]
  /\ UNCHANGED <<rnd, tk, db, ui, app, seqVars>>

\* the failing statement of a store call of the consumer, 0 for none
PoolFailChoices(stmts) ==
  {0} \cup (IF pool.events < MaxEvents THEN FailPoints(stmts) ELSE {})

\* the consumer takes a result off the channel: the loop body of
\* tokenizeDirectory after processFile
ConsumerReceive(failAt) ==
  /\ pool.phase = "running"
  /\ pool.consumer = "running"
  /\ pool.chan # <<>>
  /\ LET r == Head(pool.chan)
         file == File(r.path, r.size, r.mtime)
         changed1 == IF r.status = "Changed"
                     THEN Append(changedFiles, file) ELSE changedFiles
         new1 == IF r.status = "New" THEN Append(newFiles, file) ELSE newFiles
         tokens1 == tokens \o r.tokens
         f == flushTokens(store[dbId], changed1, new1, tokens1, failAt)
         taken == [pool EXCEPT !.chan = Tail(@),
                               !.arrived = Append(@, r.path)]
     IN /\ removedFilesLookup' = removedFilesLookup \ {r.path}
        /\ IF r.status \in {"Ineligible", "Unchanged"}
           THEN /\ failAt = 0
                /\ pool' = taken
                /\ UNCHANGED <<store, changedFiles, newFiles, tokens>>
           ELSE IF Len(tokens1) > tokenBufferSize
           THEN /\ failAt \in PoolFailChoices(FlushStmts(changed1, new1, tokens1))
                /\ store' = [store EXCEPT ![dbId] = f.store]
                /\ changedFiles' = f.changedFiles
                /\ newFiles' = f.newFiles
                /\ tokens' = f.tokens
                /\ pool' = IF f.err # "nil"
                           THEN [Cancel(taken, f.err) EXCEPT
                                   !.consumer = "failed", !.events = @ + 1]
                           ELSE [taken EXCEPT !.flushes = @ + 1]
           ELSE /\ failAt = 0
                /\ changedFiles' = changed1
                /\ newFiles' = new1
                /\ tokens' = tokens1
                /\ pool' = taken
                /\ UNCHANGED store
  /\ UNCHANGED <<rnd, tk, db, ui, app, fs, hasTokenized, dbId, pc, maxLen, dbFiles, paths, idx,
                 cur, result, hist>>

\* every worker is done and the channel is drained: the last flushTokens and
\* the removal loop, of which one statement may fail
ConsumerFinish(order, flushFailAt, removalFailAt) ==
  /\ pool.phase = "running"
  /\ pool.consumer = "running"
  /\ pool.chan = <<>>
  /\ \A w \in Workers : pool.worker[w] = "done"
  /\ Range(order) = removedFilesLookup
  /\ flushFailAt \in PoolFailChoices(FlushStmts(changedFiles, newFiles, tokens))
  /\ removalFailAt \in PoolFailChoices(RemovalStmts(order))
  /\ flushFailAt # 0 => removalFailAt = 0
  /\ LET f == flushTokens(store[dbId], changedFiles, newFiles, tokens,
                          flushFailAt)
         d == IF f.err # "nil" THEN [store |-> f.store, err |-> f.err]
              ELSE Run(f.store, RemovalStmts(order), removalFailAt)
     IN /\ store' = [store EXCEPT ![dbId] = d.store]
        /\ changedFiles' = f.changedFiles
        /\ newFiles' = f.newFiles
        /\ tokens' = f.tokens
        /\ pool' = IF d.err # "nil"
                   THEN [Cancel(pool, d.err) EXCEPT
                           !.consumer = "failed", !.events = @ + 1]
                   ELSE [pool EXCEPT !.consumer = "done"]
  /\ UNCHANGED <<rnd, tk, db, ui, app, fs, hasTokenized, dbId, pc, maxLen, dbFiles,
                 removedFilesLookup, paths, idx, cur, result, hist>>

\* the consumer observes the cancellation signal and returns
ConsumerStop ==
  /\ pool.phase = "running"
  /\ pool.consumer = "running"
  /\ pool.cancelled
  /\ pool' = [pool EXCEPT !.consumer = "cancelled"]
  /\ UNCHANGED <<rnd, tk, db, ui, app, seqVars>>

\* the workers and the consumer have returned: ProcessDirectory returns the
\* error of the run
PoolReturn ==
  /\ pool.phase = "running"
  /\ \A w \in Workers : pool.worker[w] # "running"
  /\ pool.consumer # "running"
  /\ pool' = [pool EXCEPT !.phase = "returned", !.returned = pool.err]
  /\ UNCHANGED <<rnd, tk, db, ui, app, seqVars>>

Worker(w) ==
  \/ \E fails \in BOOLEAN : WorkerProcess(w, fails)
  \/ WorkerSend(w)
  \/ WorkerStop(w)
  \/ WorkerDone(w)

Consumer ==
  \/ \E failAt \in 0..(Len(PathsOf(PoolDir)) + 3) : ConsumerReceive(failAt)
  \/ \E order \in Orderings(removedFilesLookup),
        flushFailAt \in 0..(Len(PathsOf(PoolDir)) + 3),
        removalFailAt \in 0..(2 * Len(PathsOf(PoolDir))) :
       ConsumerFinish(order, flushFailAt, removalFailAt)
  \/ ConsumerStop

NextPool ==
  \/ ProcessDirectory(PoolDir)
  \/ \E w \in 1..NumWorkers : w \in Workers /\ Worker(w)
  \/ Consumer
  \/ PoolReturn

SpecPool == InitPool /\ [][NextPool]_vars

\* the scheduler runs a worker, the consumer or the caller whenever one of
\* them can take a step
FairSpecPool == SpecPool /\ WF_vars(NextPool)

(***************************************************************************)
(* Properties.                                                             *)
(***************************************************************************)
RowsOf(st, p) ==
  {f \in st.files : f.Path = p} \cup {t \in st.tokens : t.Path = p}

ValuesOf(st, p) == {t.Value : t \in {u \in st.tokens : u.Path = p}}

\* The last pass returned nil, the pass before it was a pass of the same
\* directory that returned nil, and the file system did not change from the
\* start of the first to the end of the second.
SecondQuietPass ==
  /\ hist.last.err = "nil"
  /\ hist.last.prev.err = "nil"
  /\ hist.last.prev.dir = hist.last.dir
  /\ hist.last.prev.fs0 = hist.last.fs1

\* C4: when a pass succeeds and the file system does not change, a second
\* pass tokenizes no file, sends no statement to the store and leaves the
\* File and Token rows as the first pass left them.
C4_NoOpReindex ==
  SecondQuietPass =>
    /\ hist.last.tokenized = 0
    /\ hist.last.sent = 0
    /\ hist.last.store = hist.last.prev.store

\* a second quiet pass over a directory with files and stored tokens
C4_Witness ==
  /\ SecondQuietPass
  /\ hist.last.listed # <<>>
  /\ hist.last.store.tokens # {}

\* C5: a path that has a File row and is not enumerated has neither a File
\* row nor a Token row after the pass returned nil.
C5_RemovedPruned ==
  hist.last.err = "nil" =>
    \A f \in hist.last.store0.files :
      f.Path \notin Range(hist.last.listed) => RowsOf(hist.last.store, f.Path) = {}

\* a successful pass that found a File row and Token rows of a path that was
\* not enumerated
C5_Witness ==
  /\ hist.last.err = "nil"
  /\ \E f \in hist.last.store0.files :
       /\ f.Path \notin Range(hist.last.listed)
       /\ ValuesOf(hist.last.store0, f.Path) # {}

\* C1: after a pass returned nil, the Token rows of every File row are the
\* unique eligible tokens of a content the file had with the recorded size
\* and mtime.
C1_TokensOfRecordedVersion ==
  (pc = "idle" /\ hist.last.err = "nil") =>
    \A f \in store[hist.last.dir].files :
      \E v \in hist.seen[f.Path] :
        /\ v.size = f.Size
        /\ v.mtime = f.Mtime
        /\ ValuesOf(store[hist.last.dir], f.Path) =
             {t.Value : t \in Range(getUniqueTokensOfFile(f.Path, v.toks))}

\* C6: a path that has a File row, is enumerated and is found ineligible has
\* neither a File row nor a Token row after the pass returned nil.
C6_IneligiblePruned ==
  hist.last.err = "nil" =>
    \A f \in hist.last.store0.files :
      f.Path \in hist.last.ineligible => RowsOf(hist.last.store, f.Path) = {}

\* processFile has just determined the status of ClassifiedPath, and the store
\* is as it was then.
JustClassified ==
  \/ pc = "tokenize"
  \/ pc \in {"stat", "finish"} /\ cur.status = "Unchanged"

ClassifiedPath == IF pc = "tokenize" THEN curPath ELSE paths[idx]

\* the File rows of the classified path whose version is the one read from
\* the file, the modification times compared by sameTime
SameVersionRows(sameTime(_, _)) ==
  {f \in store[dbId].files :
     /\ f.Path = ClassifiedPath
     /\ f.Size = cur.size
     /\ sameTime(f.Mtime, cur.mtime)}

StatusBy(sameTime(_, _)) ==
  IF \A f \in store[dbId].files : f.Path # ClassifiedPath THEN "New"
  ELSE IF SameVersionRows(sameTime) # {} THEN "Unchanged"
  ELSE "Changed"

SameSecond(a, b) == Unix(a) = Unix(b)
SameInstant(a, b) == a = b

\* the path whose processing has just ended was tokenized iff it was new or
\* changed
TokenizedIffNewOrChanged ==
  (pc \in {"stat", "finish"} /\ cur.status \in {"Unchanged", "Changed", "New"})
    => (cur.tokenized <=> cur.status \in {"Changed", "New"})

\* C7 as claimed: an eligible path is New iff it has no File row, Unchanged
\* iff it has a File row with the size and the mtime of the file, Changed
\* otherwise, and is tokenized iff New or Changed.
C7_StatusByMtime ==
  /\ JustClassified => cur.status = StatusBy(SameInstant)
  /\ TokenizedIffNewOrChanged

\* C7 as amended: Unchanged iff it has a File row with the size of the file
\* and an mtime in the same second as the mtime of the file.
C7_StatusBySecond ==
  /\ JustClassified => cur.status = StatusBy(SameSecond)
  /\ TokenizedIffNewOrChanged

\* a file whose mtime moved within the second is skipped as unchanged
C7_Witness ==
  /\ JustClassified
  /\ cur.status = "Unchanged"
  /\ \E f \in store[dbId].files :
       f.Path = ClassifiedPath /\ f.Mtime # cur.mtime
  /\ ~cur.tokenized

\* C8: when no pass is running, every path of a Token row has a File row.
C8_NoOrphanTokens ==
  pc = "idle" =>
    \A d \in Dirs : \A t \in store[d].tokens :
      \E f \in store[d].files : f.Path = t.Path

\* The last pass returned nil, the pass before it was a pass of the same
\* directory that returned an error, and the file system did not change
\* from the start of the first until now.
RetriedQuietPass ==
  /\ hist.last.err = "nil"
  /\ hist.last.prev.err \notin {"nil", "none"}
  /\ hist.last.prev.dir = hist.last.dir
  /\ hist.last.prev.fs0 = hist.fsOps

\* C9: the retry of an aborted pass leaves the store that the aborted pass
\* would have left had it not been interrupted.
C9_RetryCompletes ==
  RetriedQuietPass =>
    hist.last.store =
      tokenizeDirectory(hist.last.prev.store0, hist.last.dir, fs)

\* C2: a prompt that Prompt returns has at most maxLen characters.
C2_PromptWithinMaxLen ==
  result.err = "nil" => Len(result.prompt) <= result.maxLen

\* a prompt of exactly maxLen characters, of a store that has more token
\* values than the prompt holds
C2_Witness ==
  /\ result.err = "nil"
  /\ result.maxLen > 0
  /\ Len(result.prompt) = result.maxLen
  /\ \E t \in store[result.dir].tokens :
       Len(t.Value) + 1 + Len(result.prompt) > result.maxLen

\* strings.Split(s, " ") of a non-empty s, from index i on, word being the
\* characters of the current field
RECURSIVE SplitFrom(_, _, _)
SplitFrom(s, i, word) ==
  IF i > Len(s) THEN <<word>>
  ELSE IF s[i] = " " THEN <<word>> \o SplitFrom(s, i + 1, <<>>)
  ELSE SplitFrom(s, i + 1, Append(word, s[i]))

\* the fields of a prompt between its spaces; the empty prompt has none
Fields(s) == IF s = <<>> THEN <<>> ELSE SplitFrom(s, 1, <<>>)

\* C3: the fields of a returned prompt are non-empty (one space between two
\* tokens, none before the first or after the last), pairwise distinct, and
\* each is the value of a Token row of the directory's store.
C3_DistinctStoredTokens ==
  result.err = "nil" =>
    LET ws == Fields(result.prompt)
    IN /\ \A i \in DOMAIN ws : ws[i] # <<>>
       /\ \A i, j \in DOMAIN ws : ws[i] = ws[j] => i = j
       /\ \A i \in DOMAIN ws :
            \E t \in store[result.dir].tokens : t.Value = ws[i]

\* a prompt of two tokens or more, one of them stored for two files
C3_Witness ==
  /\ result.err = "nil"
  /\ Len(Fields(result.prompt)) >= 2
  /\ \E t, u \in store[result.dir].tokens :
       /\ t.Value = u.Value
       /\ t.Path # u.Path
       /\ t.Value \in Range(Fields(result.prompt))

\* a Prompt call for the directory d starts in this step
StartsCall(d) ==
  /\ hist.calls' = hist.calls + 1
  /\ dbId' = d
  /\ pc' # "idle" \/ result'.dir = d

\* the call that starts in this step runs tokenizeDirectory
RunsPass == pc' # "idle" \/ result'.ranPass

\* C10: a Prompt call for a directory runs an index pass of it iff no index
\* pass of that directory has succeeded in this process yet.
C10_IndexedPerDirectory ==
  [][\A d \in Dirs : StartsCall(d) => (RunsPass <=> d \notin hist.indexed)]_vars

\* the calls made on the path whose processing has just ended as unchanged
UnchangedProcessed ==
  pc \in {"stat", "finish"} /\ cur.status = "Unchanged"

\* C11 as claimed: on a path classified Unchanged the pass makes stat calls
\* only.
C11_OnlyStatCalls ==
  UnchangedProcessed => cur.calls \subseteq {"os.Stat"}

\* C11 as amended: on a path classified Unchanged the pass makes the stat
\* calls and the text detection of isFileEligible, which opens the file and
\* reads its first 512 bytes, and never TokenizeFile.
C11_NoTokenizeFile ==
  UnchangedProcessed => cur.calls = {"os.Stat", "IsTextFile"}

\* an unchanged file that holds tokens has been skipped
C11_Witness ==
  /\ UnchangedProcessed
  /\ fs[paths[idx]] # Absent
  /\ fs[paths[idx]].toks # <<>>
  /\ ValuesOf(store[dbId], paths[idx]) # {}

FileCallFails ==
  /\ pc \in {"stat", "istext", "size", "mtime"}
  /\ fs[curPath] = Absent
  /\ hist'.events = hist.events

\* C13: when such a call fails the pass returns ErrFileOperation at once:
\* the directory is not marked as indexed, and the rows of the later paths
\* and of the paths that were not enumerated are as they were when the pass
\* started.
C13_FileErrorAborts ==
  [][FileCallFails =>
       /\ pc' = "idle"
       /\ result'.err = "ErrFileOperation"
       /\ result'.ranPass
       /\ hist'.last.err = "ErrFileOperation"
       /\ ~hasTokenized'
       /\ hist'.indexed = hist.indexed
       /\ store' = store
       /\ \A i \in (idx + 2)..Len(paths) :
            RowsOf(store'[dbId], paths[i]) = RowsOf(hist.pass.store0, paths[i])
       /\ \A f \in hist.pass.store0.files :
            f.Path \notin Range(paths) =>
              RowsOf(store'[dbId], f.Path) = RowsOf(hist.pass.store0, f.Path)]_vars

\* a pass has returned ErrFileOperation on its first path, which is gone; the
\* second path holds tokens and has no row
C13_Witness ==
  /\ pc = "idle"
  /\ result.err = "ErrFileOperation"
  /\ hist.last.err = "ErrFileOperation"
  /\ Len(hist.last.listed) = 2
  /\ fs[hist.last.listed[1]] = Absent
  /\ fs[hist.last.listed[2]] # Absent
  /\ getUniqueTokensOfFile(hist.last.listed[2],
                           fs[hist.last.listed[2]].toks) # <<>>
  /\ RowsOf(store[hist.last.dir], hist.last.listed[2]) = {}
  /\ ~hasTokenized

\* C14: a pass whose path enumeration returned no path, and none of whose
\* store calls failed, returned ErrEmptyDir.
C14_EmptyDirError ==
  (/\ hist.last.enumerated
   /\ hist.last.listed = <<>>
   /\ hist.last.err # "ErrQuery") =>
    hist.last.err = "ErrEmptyDir"

\* C15: a Prompt call that reached the sampling of a store without tokens
\* returned ErrNoTokensFound, not an empty prompt and nil.
C15_NoTokensError ==
  (/\ pc = "idle"
   /\ result.dir \in Dirs
   /\ result.err \notin {"none", "ErrQuery", "ErrFileOperation",
                         "ErrTextProcessing"}
   /\ store[result.dir].tokens = {}) =>
    result.err = "ErrNoTokensFound"

\* The step actions and the function agree: a pass that returned nil over a
\* file system that did not change left what tokenizeDirectory computes.
PassAgreesWithFunction ==
  (hist.last.err = "nil" /\ hist.last.fs0 = hist.fsOps) =>
    hist.last.store = tokenizeDirectory(hist.last.store0, hist.last.dir, fs)

(***************************************************************************)
(* lazy.Sample and random.Shuffle: every draw is uniform and independent,  *)
(* so the sequences of draws of one call are equally likely and a          *)
(* probability is a count of sequences over their number.                  *)
(***************************************************************************)
SampleRuns(n, k) == SampleDraws(k, n - 1)

SampleOf(n, k, d) == SampleWith(Items(n), k, 0, <<>>, d)

KSubsets(n, k) == {S \in SUBSET (1..n) : Cardinality(S) = k}

RunsChoosing(n, k, S) == {d \in SampleRuns(n, k) : Range(SampleOf(n, k, d)) = S}

RunsSelecting(n, k, x) == {d \in SampleRuns(n, k) : x \in Range(SampleOf(n, k, d))}

SampleCalled == rnd.op = "Sample" /\ rnd.i = 0 /\ ~rnd.done

SampleReturned == rnd.op = "Sample" /\ rnd.done

\* C18: Sample over a stream of n distinct items with n >= k: when the call
\* is made, every k-element subset of the stream is the result of the same
\* number of draw sequences, and every item is in the result of k/n of the
\* draw sequences; when it returns, it returns what the loop computes from
\* the draws it made.
C18_UniformSample ==
  LET n == Len(rnd.input)
      k == rnd.k
      runs == SampleRuns(n, k)
  IN /\ (SampleCalled /\ n >= k) =>
          /\ \A S \in KSubsets(n, k) :
               Cardinality(RunsChoosing(n, k, S)) * Cardinality(KSubsets(n, k))
                 = Cardinality(runs)
          /\ \A x \in 1..n :
               n * Cardinality(RunsSelecting(n, k, x)) = k * Cardinality(runs)
     /\ (SampleReturned /\ n >= k) =>
          /\ rnd.draws \in runs
          /\ rnd.out = SampleOf(n, k, rnd.draws)

\* a sample of a longer stream that lost the stream's first item to a draw
C18_Witness ==
  /\ SampleReturned
  /\ rnd.k > 1
  /\ Len(rnd.input) > rnd.k + 1
  /\ 1 \notin Range(rnd.out)

\* C19: Sample returns min(k, n) items, from different stream positions; a
\* stream of at most k items is returned whole and in order; k = 0 or an
\* empty stream gives an empty result.
C19_SampleSize ==
  SampleReturned =>
    LET n == Len(rnd.input)
        k == rnd.k
    IN /\ Len(rnd.out) = (IF k < n THEN k ELSE n)
       /\ \A x \in DOMAIN rnd.out : rnd.out[x] \in DOMAIN rnd.input
       /\ \A x, y \in DOMAIN rnd.out : rnd.out[x] = rnd.out[y] => x = y
       /\ (n <= k) => rnd.out = rnd.input
       /\ (k = 0 \/ n = 0) => rnd.out = <<>>

\* a sample of a longer stream in which a draw replaced an item
C19_Witness ==
  /\ SampleReturned
  /\ rnd.k > 0
  /\ Len(rnd.input) > rnd.k
  /\ rnd.out # SubSeq(rnd.input, 1, rnd.k)

ShuffleRuns(n) == ShuffleDraws(n - 1, n)

ShuffleOf(n, d) == ShuffleWith(Items(n), n - 1, d)

ShuffleCalled == rnd.op = "Shuffle" /\ rnd.draws = <<>> /\ ~rnd.done

ShuffleReturned == rnd.op = "Shuffle" /\ rnd.done

\* C20: Shuffle returns a permutation of its input, of the same length, the
\* one its draws compute; when the call is made on a slice of n distinct
\* elements, its draw sequences and the n! permutations correspond one to
\* one, so every element lands at every position for 1/n of the draw
\* sequences; an empty slice gives an empty slice.
C20_ShufflePermutes ==
  LET n == Len(rnd.input)
      runs == ShuffleRuns(n)
  IN /\ ShuffleCalled =>
          /\ {ShuffleOf(n, d) : d \in runs} = Orderings(1..n)
          /\ Cardinality(runs) = Cardinality(Orderings(1..n))
          /\ \A x \in 1..n, pos \in 1..n :
               n * Cardinality({d \in runs : ShuffleOf(n, d)[pos] = x})
                 = Cardinality(runs)
     /\ ShuffleReturned =>
          /\ Len(rnd.out) = n
          /\ rnd.out \in Orderings(Range(rnd.input))
          /\ rnd.draws \in runs
          /\ rnd.out = ShuffleOf(n, rnd.draws)
          /\ (n = 0) => rnd.out = <<>>

\* a shuffled slice whose last element was moved to the front
C20_Witness ==
  /\ ShuffleReturned
  /\ Len(rnd.input) > 2
  /\ rnd.out[1] = Len(rnd.input)
  /\ rnd.out # rnd.input

(***************************************************************************)
(* The worker pool.                                                        *)
(***************************************************************************)
PoolSucceeded == pool.phase = "returned" /\ pool.returned = "nil"

\* C16: whatever the order in which the results of the workers arrive at the
\* consumer, and wherever the flushes fall, a run that returns nil leaves the
\* File rows and Token rows that the pass over the paths in their listed
\* order leaves: the final store is a function of the store and the files
\* the run started from.
C16_ArrivalOrderIndependent ==
  PoolSucceeded =>
    /\ Range(pool.arrived) = Range(paths)
    /\ Len(pool.arrived) = Len(paths)
    /\ store[PoolDir] = tokenizeDirectory(pool.store0, PoolDir, fs)

\* a run that returned nil, took the results in another order than the
\* listing's, flushed before the last result and changed the store
C16_Witness ==
  /\ PoolSucceeded
  /\ Len(pool.arrived) = Len(PathsOf(PoolDir))
  /\ pool.arrived # paths
  /\ pool.flushes > 0
  /\ store[PoolDir] # pool.store0

\* a worker's processFile or a store call of the consumer has failed
HardError ==
  \/ \E w \in Workers : pool.worker[w] = "failed"
  \/ pool.consumer = "failed"

PoolTerminated ==
  /\ \A w \in Workers : pool.worker[w] # "running"
  /\ pool.consumer # "running"
  /\ pool.phase = "returned"
  /\ pool.returned = pool.err
  /\ pool.err # "nil"

\* C17: a hard error sets the cancellation signal; no worker takes a new
\* file when the signal is set; and once the signal is set every worker and
\* the consumer return, a worker that waits to hand a result over included,
\* and the run returns the error.
C17_CancelTerminates ==
  /\ [](HardError => (pool.cancelled /\ pool.err # "nil"))
  /\ [][\A w \in Workers : pool.next'[w] # pool.next[w] => ~pool.cancelled]_vars
  /\ (HardError ~> PoolTerminated)

\* a run that returned the error while a worker was waiting to hand a result
\* over and had a file of its batch left
C17_Witness ==
  /\ PoolTerminated
  /\ \E w \in Workers :
       /\ pool.worker[w] = "cancelled"
       /\ pool.held[w] # NoHeld
       /\ pool.next[w] < Len(pool.batches[w])

(***************************************************************************)
(* Package tokenizer.                                                      *)
(***************************************************************************)
RECURSIVE Flat(_)
Flat(seqs) == IF seqs = <<>> THEN <<>> ELSE Head(seqs) \o Flat(Tail(seqs))

\* the positions of word at which a subtoken other than the first starts
RECURSIVE CutsOf(_, _)
CutsOf(subtokens, from) ==
  IF Len(subtokens) <= 1 THEN {}
  ELSE {from + Len(Head(subtokens))} \cup
       CutsOf(Tail(subtokens), from + Len(Head(subtokens)))

IsUpper(r) == r \in UpperCaseRunes
IsLower(r) == r \in LowerCaseRunes

\* (a) an uppercase letter after a lowercase one, (b) an uppercase letter
\* before a lowercase one; the first position starts no new subtoken
CaseCuts(word) ==
  {i \in 2..Len(word) :
     /\ IsUpper(word[i])
     /\ \/ IsLower(word[i - 1])
        \/ i < Len(word) /\ IsLower(word[i + 1])}

\* the runs word[a..b] of two or more uppercase letters that nothing
\* uppercase precedes and a lowercase letter follows
AcronymRuns(word) ==
  {r \in (1..Len(word)) \X (1..Len(word)) :
     /\ r[1] < r[2]
     /\ r[2] < Len(word)
     /\ \A i \in r[1]..r[2] : IsUpper(word[i])
     /\ IsLower(word[r[2] + 1])
     /\ r[1] = 1 \/ IsLower(word[r[1] - 1])}

SplitReturned == tk.op = "splitMixedCaseToken" /\ tk.done

\* C21: for an all-letter token, splitMixedCaseToken returns non-empty
\* subtokens that concatenate to the token, cut exactly before an uppercase
\* letter that follows a lowercase one or precedes a lowercase one; a run of
\* uppercase letters before a lowercase letter gives the subtoken of all of
\* the run but its last letter.
C21_SplitMixedCase ==
  SplitReturned =>
    /\ tk.result = splitMixedCaseToken(tk.input)
    /\ \A j \in DOMAIN tk.result : tk.result[j] # <<>>
    /\ Flat(tk.result) = tk.input
    /\ CutsOf(tk.result, 1) = CaseCuts(tk.input)
    /\ \A r \in AcronymRuns(tk.input) :
         \E j \in DOMAIN tk.result :
           /\ tk.result[j] = SubSeq(tk.input, r[1], r[2] - 1)
           /\ j < Len(tk.result)
           /\ Head(tk.result[j + 1]) = tk.input[r[2]]

\* an identifier like NumCPUa or JSONData: an acronym of two letters or more
\* between other subtokens
C21_Witness ==
  /\ SplitReturned
  /\ Len(tk.result) >= 3
  /\ \E j \in 2..(Len(tk.result) - 1) :
       /\ Len(tk.result[j]) >= 2
       /\ \A i \in DOMAIN tk.result[j] : IsUpper(tk.result[j][i])

\* the segment of str around position i that holds no rune of stops
SegmentAt(str, i, stops) ==
  LET first == CHOOSE a \in 1..i :
                 /\ \A h \in a..i : str[h] \notin stops
                 /\ a = 1 \/ str[a - 1] \in stops
      last == CHOOSE b \in i..Len(str) :
                /\ \A h \in i..b : str[h] \notin stops
                /\ b = Len(str) \/ str[b + 1] \in stops
  IN SubSeq(str, first, last)

\* the rune at position i is a letter of a raw token made of letters only,
\* in a word that the filter lets pass
Kept(str, filter, i) ==
  /\ str[i] \notin wordDelimiters \cup tokenDelimiters
  /\ LET raw == SegmentAt(str, i, wordDelimiters \cup tokenDelimiters)
     IN \A h \in DOMAIN raw : IsUpper(raw[h]) \/ IsLower(raw[h])
  /\ wordFilter(filter, SegmentAt(str, i, wordDelimiters))

RECURSIVE KeptRunes(_, _, _)
KeptRunes(str, filter, i) ==
  IF i > Len(str) THEN <<>>
  ELSE (IF Kept(str, filter, i) THEN <<str[i]>> ELSE <<>>) \o
       KeptRunes(str, filter, i + 1)

StringReturned == tk.op = "TokenizeString" /\ tk.done

\* C22: every token that TokenizeString returns is non-empty and made of
\* the lowercase letters a-z only; the returned tokens hold, in order and
\* lowercased, the runes of the raw tokens made of letters only and nothing
\* else: a raw token with another rune leaves none of its letters.
C22_LowercaseLetterTokens ==
  StringReturned =>
    /\ tk.result = TokenizeString(tk.input, tk.filter)
    /\ \A j \in DOMAIN tk.result :
         /\ tk.result[j] # <<>>
         /\ \A i \in DOMAIN tk.result[j] : tk.result[j][i] \in LowerCaseRunes
    /\ Flat(tk.result) = ToLower(KeptRunes(tk.input, tk.filter, 1))

\* a string with a raw token that holds a letter and "#", and a token returned
C22_Witness ==
  /\ StringReturned
  /\ tk.result # <<>>
  /\ \E i \in 2..Len(tk.input) :
       tk.input[i] = "#" /\ tk.input[i - 1] \in AllRunes

\* C23: TokenizeFile returns the token sequence that TokenizeString returns
\* for the whole content of the file: the same tokens in the same order,
\* with or without a newline at the end of the last line.
C23_FileAsString ==
  (tk.op = "TokenizeFile" /\ tk.done /\ tk.err = "nil") =>
    tk.result = TokenizeString(tk.input, tk.filter)

\* the values of the Token rows of the store
StoredValues == {t.Value : t \in db.store.tokens}

\* the iteration has ended: on an error result or because the consumer stopped
IterCut ==
  \/ db.it.stopped
  \/ db.it.yielded # <<>> /\ db.it.yielded[Len(db.it.yielded)].Err # "nil"

IterYieldsOnce ==
  LET ys == db.it.yielded
  IN /\ \A i, j \in DOMAIN ys :
          ys[i].Err = "nil" /\ ys[j].Err = "nil" /\ ys[i].Value = ys[j].Value
            => i = j
     /\ \A i \in DOMAIN ys :
          /\ ys[i].Err = "nil" => ys[i].Value \in StoredValues
          /\ ys[i].Err # "nil" => i = Len(ys)
     /\ Len(ys) <= Cardinality(StoredValues) + 1
     /\ db.it.state = "returned" /\ ~IterCut
          => {ys[i].Value : i \in DOMAIN ys} = StoredValues

PathsIn(records) == {records[i].Path : i \in DOMAIN records}
LastOf(records, path) ==
  records[CHOOSE i \in DOMAIN records :
            /\ records[i].Path = path
            /\ \A j \in DOMAIN records : records[j].Path = path => j <= i]

UpsertFilesDone == db.last.op = "UpsertFiles" /\ db.last.err = "nil"
UpsertTokensDone == db.last.op = "UpsertTokens" /\ db.last.err = "nil"

UpsertFilesEffect ==
  LET recs == db.last.files
      old == db.last.store0
  IN /\ \A f, g \in db.store.files : f.Path = g.Path => f = g
     /\ \A path \in PathsIn(recs) : LastOf(recs, path) \in db.store.files
     /\ {f \in db.store.files : f.Path \notin PathsIn(recs)}
          = {f \in old.files : f.Path \notin PathsIn(recs)}
     /\ db.store.tokens = old.tokens
     /\ db.store = Exec(old, Stmt("upsertFiles", "", recs))
     /\ CreateInBatches(db.store, "upsertFiles", RecordBatches(recs)) = db.store

UpsertTokensEffect ==
  LET recs == db.last.tokens
      old == db.last.store0
  IN /\ db.store.tokens = old.tokens \cup Range(recs)
     /\ db.store.files = old.files
     /\ db.store = Exec(old, Stmt("upsertTokens", "", recs))
     /\ CreateInBatches(db.store, "upsertTokens", RecordBatches(recs)) = db.store

DeleteFileDone == db.last.op = "DeleteFile"
DeleteTokensDone == db.last.op = "DeleteTokensOfFile"

\* the rows of the other paths are the ones the store held before the call
OtherRowsKept ==
  /\ {f \in db.store.files : f.Path # db.last.path}
       = {f \in db.last.store0.files : f.Path # db.last.path}
  /\ {t \in db.store.tokens : t.Path # db.last.path}
       = {t \in db.last.store0.tokens : t.Path # db.last.path}

TokensOf(st, path) == {t \in st.tokens : t.Path = path}

\* C26: DeleteFile and DeleteTokensOfFile change only rows of the given
\* path; a DeleteFile that returns nil has removed the File row of the path
\* and, exactly when cascade is true, all its Token rows; a
\* DeleteTokensOfFile that returns nil has removed the Token rows of the
\* path and no File row.
C26_DeleteFrame ==
  /\ DeleteFileDone \/ DeleteTokensDone => OtherRowsKept
  /\ DeleteFileDone /\ db.last.err = "nil" =>
       /\ \A f \in db.store.files : f.Path # db.last.path
       /\ TokensOf(db.store, db.last.path)
            = IF db.last.cascade THEN {}
              ELSE TokensOf(db.last.store0, db.last.path)
  /\ DeleteTokensDone =>
       /\ db.store.files = db.last.store0.files
       /\ db.last.err = "nil" => TokensOf(db.store, db.last.path) = {}

\* a cascading DeleteFile that returned nil over a store that held a File
\* row and Token rows of the path and of the other path
C26_Witness ==
  /\ DeleteFileDone
  /\ db.last.cascade
  /\ db.last.err = "nil"
  /\ \E f, g \in db.last.store0.files : f.Path = db.last.path /\ g.Path # f.Path
  /\ TokensOf(db.last.store0, db.last.path) # {}
  /\ \E t \in db.store.tokens : t.Path # db.last.path

\* an openDb call that found no cached handle, opened the database and had
\* its first migration fail
MigrationFailed ==
  /\ db.last.op = "openDb"
  /\ ~db.last.cached
  /\ db.last.failures > 0

\* C27: when the migration fails while a directory's store is opened, the
\* storage location is reset and the migration retried exactly once, and an
\* error is returned only if the retry fails too; a handle is cached only
\* after a successful open, and a repeat open returns the cached handle.
C27_RetryOnce ==
  /\ MigrationFailed =>
       /\ db.last.reset
       /\ db.last.migrations = 2
       /\ db.last.err # "nil" <=> db.last.failures > 1
  /\ db.last.op = "openDb" =>
       /\ db.last.err # "nil" /\ ~db.last.cached => db.dbCache[db.last.id] = 0
       /\ db.last.err = "nil" => db.dbCache[db.last.id] = db.last.handle
       /\ db.last.cached => db.last.err = "nil"

\* C28: when the token stream yields an error result while Prompt samples,
\* at whatever index of the stream, Prompt returns an error and no prompt
\* made of the tokens read before the error.
C28_StreamErrorFails ==
  result.streamErr => result.err # "nil" /\ result.prompt = <<>>

\* the paths of the files in the two file queues
QueuedPaths ==
  {changedFiles[i].Path : i \in DOMAIN changedFiles} \cup
  {newFiles[i].Path : i \in DOMAIN newFiles}

\* a file g that the pass tokenized: while it is queued no row of its path has
\* been touched; once it is flushed the store holds its metadata and the
\* tokens of its current version, and for a Changed file no other token
FlushedAsOne(g, st, st0, inQueue) ==
  IF inQueue
  THEN TokensOf(st, g.path) = TokensOf(st0, g.path)
  ELSE /\ g.file \in st.files
       /\ g.toks \subseteq st.tokens
       /\ g.status = "Changed" => TokensOf(st, g.path) = g.toks

\* C29: a flush deletes the old tokens of its Changed paths before it
\* upserts the buffered tokens, and deletes them in the flush that writes
\* the path's metadata and new tokens: no flush deletes tokens written for a
\* file's current version, and after a pass that returned nil a Changed file
\* keeps no token of its old version only.
C29_DeleteBeforeUpsert ==
  /\ pc # "idle" =>
       \A g \in hist.pass.queued :
         FlushedAsOne(g, store[dbId], hist.pass.store0, g.path \in QueuedPaths)
  /\ hist.last.err = "nil" =>
       \A g \in hist.last.queued :
         FlushedAsOne(g, hist.last.store, hist.last.store0, FALSE)

\* a running pass whose flush in the loop wrote a Changed file that had a
\* token in its old version only, with a file tokenized after that flush
C29_Witness ==
  /\ pc # "idle"
  /\ \E g, h \in hist.pass.queued :
       /\ g.status = "Changed"
       /\ g.path \notin QueuedPaths
       /\ TokensOf(hist.pass.store0, g.path) \ g.toks # {}
       /\ g.toks # {}
       /\ h.path \in QueuedPaths

\* the queues as the last flushTokens of the pass leaves them when it
\* succeeds
AfterLastFlush == flushTokens(store[dbId], changedFiles, newFiles, tokens, 0)

\* C30: a flush is triggered as soon as the token buffer reaches
\* tokenBufferSize: between the results of a pass the buffer holds fewer than
\* tokenBufferSize tokens, and a flush leaves the changed-file queue, the
\* new-file queue and the token buffer empty.
C30_FlushAtThreshold ==
  /\ pc # "idle" => Len(tokens) < tokenBufferSize
  /\ pc = "finish" =>
       /\ AfterLastFlush.changedFiles = <<>>
       /\ AfterLastFlush.newFiles = <<>>
       /\ AfterLastFlush.tokens = <<>>

PackReturned == rnd.op = "Pack" /\ rnd.done

\* the length of the first m tokens of the shuffled list joined by single
\* spaces
JoinedLen(m) ==
  IF m = 0 THEN 0
  ELSE LET lens == [i \in 1..m |-> Len(rnd.input[i])]
           sum[i \in 0..m] == IF i = 0 THEN 0 ELSE sum[i - 1] + lens[i]
       IN sum[m] + (m - 1)

\* the length of the longest prefix of the shuffled list that fits
LongestFit ==
  CHOOSE m \in 0..Len(rnd.input) :
    /\ JoinedLen(m) <= rnd.maxLen
    /\ \A n \in 0..Len(rnd.input) : JoinedLen(n) <= rnd.maxLen => n <= m

\* C31: the prompt is made of exactly the longest prefix of the shuffled
\* sample whose space-joined length is at most maxLen: a token after the
\* first one that does not fit is never included, and the prompt is empty
\* when the first token alone does not fit.
C31_LongestPrefix ==
  PackReturned =>
    /\ rnd.out = SubSeq(rnd.input, 1, LongestFit)
    /\ rnd.prompt = Join(SubSeq(rnd.input, 1, LongestFit))
    /\ Len(rnd.prompt) = JoinedLen(LongestFit)
    /\ rnd.input # <<>> /\ Len(rnd.input[1]) > rnd.maxLen => rnd.prompt = <<>>

\* a list whose second token does not fit and whose third token would
C31_Witness ==
  /\ PackReturned
  /\ Len(rnd.input) = 3
  /\ Len(rnd.out) = 1
  /\ Len(rnd.input[1]) + 1 + Len(rnd.input[3]) <= rnd.maxLen

\* the largest number of tokens of minTokenLen + 1 runes, the shortest the
\* store holds, that fit in maxLen when joined by single spaces
MostTokensFitting(ml) ==
  CHOOSE n \in 0..(ml + 1) :
    /\ n = 0 \/ n * (minTokenLen + 1) + (n - 1) <= ml
    /\ \A m \in 1..(ml + 1) : m * (minTokenLen + 1) + (m - 1) <= ml => m <= n

\* C32: for every maxLen >= 0 the sample size k of generatePrompt is a
\* non-negative integer and at least the largest number of stored tokens
\* that fit in maxLen, so no packed prompt holds more tokens than the sample
\* size.
C32_SampleSizeSuffices ==
  rnd.op = "Pack" =>
    /\ rnd.k \in Nat
    /\ rnd.k = maxWordsNeeded(rnd.maxLen)
    /\ rnd.k >= MostTokensFitting(rnd.maxLen)
    /\ rnd.done => Len(rnd.out) <= rnd.k

\* a prompt that holds as many tokens as fit, two of them
C32_Witness ==
  /\ PackReturned
  /\ Len(rnd.out) = MostTokensFitting(rnd.maxLen)
  /\ Len(rnd.out) = 2

\* the whitespace-delimited words of a string, the empty ones included
RECURSIVE WordsOf(_)
WordsOf(str) ==
  IF \A i \in DOMAIN str : str[i] \notin wordDelimiters THEN <<str>>
  ELSE LET d == CHOOSE i \in DOMAIN str :
                  /\ str[i] \in wordDelimiters
                  /\ \A j \in 1..(i - 1) : str[j] \notin wordDelimiters
       IN <<SubSeq(str, 1, d - 1)>> \o WordsOf(SubSeq(str, d + 1, Len(str)))

\* the tokens of the words that are shorter than the bound, or of all words
\* when there is no bound
RECURSIVE TokensOfWords(_, _)
TokensOfWords(words, bound) ==
  IF words = <<>> THEN <<>>
  ELSE (IF bound = 0 \/ Len(Head(words)) < bound
        THEN tokenizeWord(Head(words)) ELSE <<>>) \o
       TokensOfWords(Tail(words), bound)

PassReturns ==
  /\ pc' = "idle"
  /\ result'.ranPass
  /\ pc # "idle" \/ hist'.calls # hist.calls

\* a step in which Prompt is called for a directory that exists
PromptCalled ==
  /\ pc = "idle"
  /\ hist'.calls = hist.calls + 1
  /\ ~(result'.err = "ErrInvalidDirPath" /\ ~result'.ranPass)

\* C34: hasTokenized becomes true only when an index pass has returned nil;
\* when the pass fails Prompt returns its error without sampling and the
\* flag stays false, and a Prompt call made while the flag is false runs the
\* index pass.
C34_FlagAfterSuccess ==
  [][/\ hasTokenized' /\ ~hasTokenized => PassReturns /\ hist'.last.err = "nil"
     /\ PassReturns /\ hist'.last.err # "nil" =>
          /\ ~hasTokenized'
          /\ result'.err = hist'.last.err
          /\ result'.prompt = <<>>
     /\ PromptCalled /\ ~hasTokenized =>
          hist'.pass.err = "running" \/ PassReturns]_vars

\* a pass failed, and the next Prompt call has started a pass again
C34_Witness ==
  /\ hist.last.err \notin {"nil", "none"}
  /\ hist.pass.err = "running"
  /\ ~hasTokenized
  /\ hist.calls = 2

(***************************************************************************)
(* Package ui.                                                             *)
(***************************************************************************)
\* C35: for every sequence of messages at most one fetch of domain.Prompt is
\* in flight, promptsBeingFetched is 0 or 1, and the prompt pool never holds
\* more than promptPoolSize prompts: no two index passes and no two sampling
\* reads run at the same time.
C35_OneFetchInFlight ==
  ui.appState # "none" =>
    /\ ui.promptsBeingFetched \in {0, 1}
    /\ ui.inFlight \in {0, 1}
    /\ Len(ui.promptPool) <= promptPoolSize

\* a full pool, filled by fetches that ran one after the other, during a
\* session
C35_Witness ==
  /\ Len(ui.promptPool) = promptPoolSize
  /\ ui.inFlight = 0
  /\ ui.appState = "StateSession"

\* the init message has been handled and the program runs
Started == ui.appState # "none" /\ ui.inited /\ Running

\* C36: once the init message has been handled, a fetch is in flight
\* whenever the state is StateLoading, and the pool is full whenever no fetch
\* is in flight; when every fetch returns, StateLoading is always left, for
\* StateReady with a prompt of the pool or by quitting.
C36_LoadingEnds ==
  /\ [](Started =>
          /\ ui.appState = "StateLoading" => ui.inFlight > 0
          /\ ui.inFlight = 0 => Len(ui.promptPool) = promptPoolSize)
  /\ (ui.appState = "StateLoading" /\ ui.inited)
       ~> (ui.appState = "StateReady" \/ ui.quit)

\* StateLoading entered again from StateBreak with an empty pool, while the
\* fetch started at the last prompt runs
C36_Witness ==
  /\ Started
  /\ ui.appState = "StateLoading"
  /\ ui.prompt # <<>>
  /\ ui.inFlight = 1

\* C37: whenever the state is StateReady or StateSession the cursor is
\* strictly less than the length of the prompt, for every prompt that
\* domain.Prompt returns, so Update never reads the prompt out of range, and
\* the state is StateBreak exactly when the cursor has reached the length of
\* the prompt.
C37_CursorInPrompt ==
  ui.appState # "none" =>
    /\ ui.appState \in {"StateReady", "StateSession"} =>
         cursor(ui) < Len(ui.prompt)
    /\ ui.appState = "StateBreak" => cursor(ui) = Len(ui.prompt)
    /\ ~ui.panicked

(***************************************************************************)
(* Packages config and data of the process.                                *)
(***************************************************************************)
\* Teardown has returned
TornDown == app.phase = "start" /\ app.td.called

\* the number of the first attempt that succeeds, deleteRetries when none does
FirstSuccess(outcomes) ==
  IF \E j \in 1..deleteRetries : outcomes[j]
    THEN CHOOSE j \in 1..deleteRetries :
           outcomes[j] /\ \A h \in 1..(j - 1) : ~outcomes[h]
    ELSE deleteRetries

\* the removal attempts of a Teardown that closed the connection: it stops at
\* the first success, waits 50, 100, 200 ms between failed attempts and not
\* after the last one
RemovalAttempts ==
  /\ app.cancelled
  /\ app.db = "closed"
  /\ app.td.attempts = FirstSuccess(app.td.outcomes)
  /\ app.td.attempts \in 1..4
  /\ app.td.waits = SubSeq(<<50, 100, 200>>, 1, app.td.attempts - 1)
  /\ TempDbDir(app) \in app.removals

AllAttemptsFail == \A j \in 1..4 : ~app.td.outcomes[j]

\* C38: Teardown with an open store cancels the context, closes the
\* connection and tries the removal of the temporary store files at most 4
\* times, stopping at the first success, waiting 50, 100, 200 ms between
\* failed attempts; it returns ErrCleanup iff all 4 attempts fail, and nil
\* without any removal when no store was opened.
C38_TeardownRetries ==
  TornDown =>
    IF app.td.dbWas = "nil"
      THEN /\ app.td.ret = "nil"
           /\ app.td.attempts = 0
           /\ app.cancelled
      ELSE app.td.dbWas = "open" =>
             /\ RemovalAttempts
             /\ app.td.ret = "ErrCleanup" <=> AllAttemptsFail
             /\ app.td.ret \in {"nil", "ErrCleanup"}

\* C38, amended: as above when the connection closes; when db.DB() or
\* sqlDB.Close() fails Teardown returns ErrCleanup with the context cancelled
\* and without any removal attempt.
C38_TeardownRetriesOrCloseFails ==
  TornDown =>
    IF app.td.dbWas = "nil"
      THEN /\ app.td.ret = "nil"
           /\ app.td.attempts = 0
           /\ app.cancelled
      ELSE IF app.td.closeRes # "ok"
        THEN /\ app.td.ret = "ErrCleanup"
             /\ app.td.attempts = 0
             /\ app.td.waits = <<>>
             /\ app.cancelled
        ELSE /\ RemovalAttempts
             /\ app.td.ret = "ErrCleanup" <=> AllAttemptsFail
             /\ app.td.ret \in {"nil", "ErrCleanup"}

\* an open store torn down with four failed removals
C38_Witness ==
  /\ TornDown
  /\ app.td.dbWas = "open"
  /\ app.td.closeRes = "ok"
  /\ app.td.attempts = 4
  /\ app.td.waits = <<50, 100, 200>>
  /\ app.td.ret = "ErrCleanup"

\* C39: after config.Init returns nil, TempDbDir() and CachedDbDir() are the
\* db/tmp and db/cache directories that Init created under the user cache
\* directory, and the store file chosen by Setup and every directory emptied
\* by PurgeCache or Teardown lie inside the application's cache directory.
C39_StoreInsideCacheDir ==
  (app.phase = "start" /\ app.initRet = "nil") =>
    /\ TempDbDir(app) = OwnedTempDbDir
    /\ CachedDbDir(app) = OwnedCachedDbDir
    /\ {TempDbDir(app), CachedDbDir(app)} \subseteq app.created
    /\ app.dbPath # <<>> => IsUnder(app.dbPath, AppOwnedDir)
    /\ \A d \in app.removals : IsUnder(d, AppOwnedDir)

====
